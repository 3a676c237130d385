-------------------------- MODULE SlotPool_proofs --------------------------
(***************************************************************************)
(* Proofs about SlotPool, for every set of slots, requests and images.     *)
(*                                                                         *)
(* SoleOwner is not inductive: that a release puts a KV back into ITS slot *)
(* depends on what the guard remembers.  The inductive invariant adds the  *)
(* shape of a guard at each program point (GuardShape, ColdShape), of a    *)
(* slot (SlotShape), and says of the holders pairwise what SoleOwner says  *)
(* of their set (Exclusive).                                               *)
(***************************************************************************)
EXTENDS SlotPool, FiniteSetTheorems, TLAPS

\* Without a slot a guard is blank; with one it holds the KV of its slot and, while it seeds,
\* possibly the KV of a different slot as the source.
GuardShape ==
  \A r \in Requests :
    /\ req[r].pc \notin {"seed", "held", "release"} =>
         req[r].slot = None /\ req[r].kv = None
    /\ req[r].pc \in {"seed", "held", "release"} =>
         req[r].slot \in Slots /\ req[r].kv = req[r].slot
    /\ req[r].pc # "seed" => req[r].src = None
    /\ req[r].srcKv = req[r].src
    /\ req[r].src # None => req[r].src # req[r].slot

\* The cold worker holds the KV of the slot it reserved, exactly while it spills.
ColdShape ==
  /\ cold.kv = cold.slot
  /\ cold.slot # None <=> cold.pc = "spill"

\* A slot is busy exactly when its own KV is out.
SlotShape == \A s \in Slots : slots[s].kv = IF slots[s].busy THEN None ELSE s

\* A busy slot's KV has a holder, a free slot's none, and no KV has two.
Exclusive ==
  \A s \in Slots :
    /\ slots[s].busy <=> \/ cold.kv = s
                         \/ \E r \in Requests : req[r].kv = s \/ req[r].srcKv = s
    /\ \A r \in Requests : req[r].kv = s \/ req[r].srcKv = s =>
         /\ cold.kv # s
         /\ \A q \in Requests : req[q].kv = s \/ req[q].srcKv = s => q = r

IInv == PoolTypeOK /\ GuardShape /\ ColdShape /\ SlotShape /\ Exclusive

-----------------------------------------------------------------------------
\* The initial states satisfy the inductive invariant.
LEMMA PoolInitInv == PoolInit => IInv
<1> SUFFICES ASSUME PoolInit PROVE IInv
  OBVIOUS
<1> USE PoolAssumption DEF PoolInit, NoGuard, OptKv
<1>1. PoolTypeOK
  BY DEF PoolTypeOK, SlotType, Contents, GuardType, PoolPcs, ColdType
<1>2. GuardShape /\ ColdShape /\ SlotShape /\ Exclusive
  BY DEF GuardShape, ColdShape, SlotShape, Exclusive
<1> QED
  BY <1>1, <1>2 DEF IInv

\* A notification only lets sleeping threads run: it moves no KV.
LEMMA NotifyMovesNothing ==
  ASSUME NEW pcs, "checkout" \in pcs, NEW rq \in [Requests -> GuardType(pcs)],
         cold \in ColdType, NotifyFreed(rq)
  PROVE  /\ req' \in [Requests -> GuardType(pcs)]
         /\ cold' \in ColdType
         /\ \A r \in Requests :
              /\ req'[r].slot = rq[r].slot /\ req'[r].kv = rq[r].kv
              /\ req'[r].src = rq[r].src /\ req'[r].srcKv = rq[r].srcKv
              /\ \/ req'[r].pc = rq[r].pc
                 \/ rq[r].pc = "asleep" /\ req'[r].pc = "checkout"
         /\ cold'.slot = cold.slot /\ cold'.kv = cold.kv
         /\ cold'.pc = "spill" <=> cold.pc = "spill"
<1> DEFINE asleep == {r \in Requests : rq[r].pc = "asleep"}
<1> USE DEF GuardType, ColdType
<1>1. /\ cold' \in ColdType
      /\ cold'.slot = cold.slot /\ cold'.kv = cold.kv
      /\ cold'.pc = "spill" <=> cold.pc = "spill"
  BY DEF NotifyFreed
<1>2. CASE req' = [r \in Requests |-> IF r \in asleep THEN [rq[r] EXCEPT !.pc = "checkout"]
                                                      ELSE rq[r]]
  BY <1>1, <1>2
<1>3. CASE req' = rq
  BY <1>1, <1>3
<1>4. ASSUME NEW q \in asleep, req' = [rq EXCEPT ![q].pc = "checkout"]
      PROVE  /\ req' \in [Requests -> GuardType(pcs)]
             /\ \A r \in Requests :
                  /\ req'[r].slot = rq[r].slot /\ req'[r].kv = rq[r].kv
                  /\ req'[r].src = rq[r].src /\ req'[r].srcKv = rq[r].srcKv
                  /\ \/ req'[r].pc = rq[r].pc
                     \/ rq[r].pc = "asleep" /\ req'[r].pc = "checkout"
  BY <1>4
<1> QED
  BY <1>1, <1>2, <1>3, <1>4 DEF NotifyFreed

-----------------------------------------------------------------------------
(* One lemma per action of a request thread. *)

\* A thread that holds nothing moves between "idle", "checkout" and "asleep".
LEMMA EmptyHandedInv ==
  ASSUME IInv, NEW r \in Requests, req[r].pc \in {"idle", "checkout"},
         NEW pc \in {"checkout", "asleep"},
         req' = [req EXCEPT ![r].pc = pc], UNCHANGED <<slots, content, cold>>
  PROVE  IInv'
<1> USE DEF IInv, PoolTypeOK
<1>1. PoolTypeOK'
  BY DEF GuardType, PoolPcs
<1>2. \A q \in Requests :
        /\ req'[q].slot = req[q].slot /\ req'[q].kv = req[q].kv
        /\ req'[q].src = req[q].src /\ req'[q].srcKv = req[q].srcKv
        /\ req'[q].pc = IF q = r THEN pc ELSE req[q].pc
  BY DEF GuardType
<1>3. GuardShape' /\ Exclusive'
  BY <1>2 DEF GuardShape, Exclusive
<1>4. ColdShape' /\ SlotShape'
  BY DEF ColdShape, SlotShape
<1> QED
  BY <1>1, <1>3, <1>4

\* A checkout moves the KV of a free slot, and that of its source, into the guard.
LEMMA CheckoutInv ==
  ASSUME IInv, NEW r \in Requests, req[r].pc = "checkout",
         NEW t \in Free, NEW src \in (Free \ {t}) \cup {None},
         NEW pc \in {"seed", "held"}, src # None => pc = "seed",
         slots' = [s \in Slots |-> IF s = t \/ s = src THEN Reserved(s) ELSE slots[s]],
         req' = [req EXCEPT ![r] =
                   [pc |-> pc, slot |-> t, kv |-> slots[t].kv, src |-> src,
                    srcKv |-> IF src = None THEN None ELSE slots[src].kv]],
         content' \in [Slots -> Contents], UNCHANGED cold
  PROVE  IInv'
<1> USE PoolAssumption DEF IInv, PoolTypeOK
<1>1. t \in Slots /\ slots[t].kv = t /\ ~slots[t].busy
  BY DEF Free, SlotShape
<1>2. src # None => src \in Slots /\ slots[src].kv = src /\ ~slots[src].busy /\ src # t
  BY DEF Free, SlotShape
<1>3. \A s \in Slots :
        IF s = t \/ s = src THEN slots'[s].busy /\ slots'[s].kv = None
                            ELSE slots'[s] = slots[s]
  BY DEF Reserved, SlotType
<1>4. /\ req'[r] = [pc |-> pc, slot |-> t, kv |-> t, src |-> src, srcKv |-> src]
      /\ \A q \in Requests : q # r => req'[q] = req[q]
  BY <1>1, <1>2
<1>5. PoolTypeOK'
  <2>1. slots' \in [Slots -> SlotType]
    BY DEF Reserved, SlotType, OptKv
  <2>2. req' \in [Requests -> GuardType(PoolPcs)]
    BY <1>1, <1>2, <1>4 DEF GuardType, PoolPcs, OptKv
  <2> QED
    BY <2>1, <2>2
<1>6. GuardShape'
  BY <1>1, <1>2, <1>4 DEF GuardShape
<1>7. ColdShape' /\ SlotShape'
  BY <1>3 DEF ColdShape, SlotShape
<1>8. Exclusive'
  <2> SUFFICES ASSUME NEW s \in Slots
               PROVE  /\ slots'[s].busy <=> \/ cold'.kv = s
                                            \/ \E q \in Requests : req'[q].kv = s \/ req'[q].srcKv = s
                      /\ \A p \in Requests : req'[p].kv = s \/ req'[p].srcKv = s =>
                           /\ cold'.kv # s
                           /\ \A q \in Requests : req'[q].kv = s \/ req'[q].srcKv = s => q = p
    BY DEF Exclusive
  <2>0. req[r].kv = None /\ req[r].srcKv = None
    BY DEF GuardShape
  <2>1. CASE s = t \/ s = src
    <3>1. ~slots[s].busy
      BY <1>1, <1>2, <2>1
    <3>2. cold.kv # s /\ \A q \in Requests : req[q].kv # s /\ req[q].srcKv # s
      BY <3>1 DEF Exclusive
    <3>3. slots'[s].busy /\ (req'[r].kv = s \/ req'[r].srcKv = s)
      BY <1>3, <1>4, <2>1
    <3> QED
      BY <1>4, <3>2, <3>3
  <2>2. CASE s # t /\ s # src
    <3>1. slots'[s] = slots[s] /\ \A q \in Requests :
            (req'[q].kv = s \/ req'[q].srcKv = s) <=> (req[q].kv = s \/ req[q].srcKv = s)
      BY <1>3, <1>4, <2>0, <2>2
    <3> QED
      BY <3>1 DEF Exclusive
  <2> QED
    BY <2>1, <2>2
<1> QED
  BY <1>5, <1>6, <1>7, <1>8

\* A generation changes neither the pool nor what the guard holds.
LEMMA LegacyInv ==
  ASSUME IInv, NEW r \in Requests, RunLegacy(r, {"release"})
  PROVE  IInv'
<1> USE PoolAssumption DEF IInv, PoolTypeOK
<1>1. req[r].pc = "held" /\ req' = [req EXCEPT ![r].pc = "release"]
  BY DEF RunLegacy
<1>2. req[r].kv \in Slots
  BY <1>1 DEF GuardShape
<1>3. content' \in [Slots -> Contents]
  BY <1>2 DEF RunLegacy, ContentOf, IsImage, Contents
<1>4. PoolTypeOK'
  BY <1>1, <1>3 DEF RunLegacy, GuardType, PoolPcs
<1>5. \A q \in Requests :
        /\ req'[q].slot = req[q].slot /\ req'[q].kv = req[q].kv
        /\ req'[q].src = req[q].src /\ req'[q].srcKv = req[q].srcKv
        /\ req'[q].pc = IF q = r THEN "release" ELSE req[q].pc
  BY <1>1 DEF GuardType
<1>6. GuardShape' /\ Exclusive'
  BY <1>1, <1>5 DEF GuardShape, Exclusive, RunLegacy
<1>7. ColdShape' /\ SlotShape'
  BY DEF ColdShape, SlotShape, RunLegacy
<1> QED
  BY <1>4, <1>6, <1>7

\* Putting a KV back: when the guard of r changes so that it lets go of exactly x and x's slot
\* gets x back, the notification that goes with it preserves the invariant.
LEMMA ReturnInv ==
  ASSUME IInv, NEW r \in Requests, NEW x \in Slots, NEW g \in GuardType(PoolPcs),
         req[r].kv = x \/ req[r].srcKv = x,
         \A s \in Slots : (g.kv = s \/ g.srcKv = s) <=>
                          (req[r].kv = s \/ req[r].srcKv = s) /\ s # x,
         \/ g = [NoGuard EXCEPT !.pc = "done"]
         \/ g.pc = "held" /\ g.slot \in Slots /\ g.kv = g.slot /\ g.src = None /\ g.srcKv = None,
         NEW key \in Keys \cup {NoKey},
         slots' = [slots EXCEPT ![x] = Returned(x, key)],
         NotifyFreed([req EXCEPT ![r] = g]),
         content' \in [Slots -> Contents]
  PROVE  IInv'
<1> DEFINE rq == [req EXCEPT ![r] = g]
<1> USE PoolAssumption DEF IInv, PoolTypeOK
<1>1. rq \in [Requests -> GuardType(PoolPcs)] /\ rq[r] = g
      /\ \A q \in Requests : q # r => rq[q] = req[q]
  OBVIOUS
<1>2. NotifyFreed(rq)
  OBVIOUS
<1> HIDE DEF rq
<1>3. /\ req' \in [Requests -> GuardType(PoolPcs)]
      /\ cold' \in ColdType
      /\ \A q \in Requests :
           /\ req'[q].slot = rq[q].slot /\ req'[q].kv = rq[q].kv
           /\ req'[q].src = rq[q].src /\ req'[q].srcKv = rq[q].srcKv
           /\ \/ req'[q].pc = rq[q].pc
              \/ rq[q].pc = "asleep" /\ req'[q].pc = "checkout"
      /\ cold'.slot = cold.slot /\ cold'.kv = cold.kv
      /\ cold'.pc = "spill" <=> cold.pc = "spill"
  BY <1>1, <1>2, NotifyMovesNothing, "checkout" \in PoolPcs DEF PoolPcs
<1>4. /\ slots'[x].kv = x /\ ~slots'[x].busy
      /\ \A s \in Slots : s # x => slots'[s] = slots[s]
  BY DEF Returned
<1>5. PoolTypeOK'
  <2>1. slots' \in [Slots -> SlotType]
    BY DEF Returned, SlotType, OptKv, HasCache
  <2> QED
    BY <2>1, <1>3
<1>6. GuardShape'
  <2>1. ASSUME NEW q \in Requests, q # r
        PROVE  /\ req'[q].pc \notin {"seed", "held", "release"} => req'[q].slot = None /\ req'[q].kv = None
               /\ req'[q].pc \in {"seed", "held", "release"} => req'[q].slot \in Slots /\ req'[q].kv = req'[q].slot
               /\ req'[q].pc # "seed" => req'[q].src = None
               /\ req'[q].srcKv = req'[q].src
               /\ req'[q].src # None => req'[q].src # req'[q].slot
    BY <1>1, <1>3, <2>1 DEF GuardShape
  <2>2. /\ req'[r].pc \notin {"seed", "held", "release"} => req'[r].slot = None /\ req'[r].kv = None
        /\ req'[r].pc \in {"seed", "held", "release"} => req'[r].slot \in Slots /\ req'[r].kv = req'[r].slot
        /\ req'[r].pc # "seed" => req'[r].src = None
        /\ req'[r].srcKv = req'[r].src
        /\ req'[r].src # None => req'[r].src # req'[r].slot
    BY <1>1, <1>3 DEF NoGuard
  <2> QED
    BY <2>1, <2>2 DEF GuardShape
<1>7. ColdShape' /\ SlotShape'
  BY <1>3, <1>4 DEF ColdShape, SlotShape
<1>8. Exclusive'
  <2> SUFFICES ASSUME NEW s \in Slots
               PROVE  /\ slots'[s].busy <=> \/ cold'.kv = s
                                            \/ \E q \in Requests : req'[q].kv = s \/ req'[q].srcKv = s
                      /\ \A p \in Requests : req'[p].kv = s \/ req'[p].srcKv = s =>
                           /\ cold'.kv # s
                           /\ \A q \in Requests : req'[q].kv = s \/ req'[q].srcKv = s => q = p
    BY DEF Exclusive
  <2>1. \A q \in Requests :
          (req'[q].kv = s \/ req'[q].srcKv = s) <=>
          IF q = r THEN (req[r].kv = s \/ req[r].srcKv = s) /\ s # x
                   ELSE req[q].kv = s \/ req[q].srcKv = s
    BY <1>1, <1>3
  <2>2. CASE s = x
    <3>1. cold.kv # s /\ \A q \in Requests : q # r => req[q].kv # s /\ req[q].srcKv # s
      BY <2>2 DEF Exclusive
    <3> QED
      BY <1>3, <1>4, <2>1, <2>2, <3>1
  <2>3. CASE s # x
    <3>1. \A q \in Requests : (req'[q].kv = s \/ req'[q].srcKv = s) <=>
                              (req[q].kv = s \/ req[q].srcKv = s)
      BY <2>1, <2>3
    <3> QED
      BY <1>3, <1>4, <2>3, <3>1 DEF Exclusive
  <2> QED
    BY <2>2, <2>3
<1> QED
  BY <1>5, <1>6, <1>7, <1>8

\* The second critical section of a checkout returns the source, if there is one.
LEMMA SeededInv ==
  ASSUME IInv, NEW r \in Requests, Seeded(r)
  PROVE  IInv'
<1> USE PoolAssumption DEF IInv, PoolTypeOK
<1> DEFINE g == [req[r] EXCEPT !.pc = "held", !.src = None, !.srcKv = None]
<1>1. /\ req[r].pc = "seed" /\ req[r].kv \in Slots /\ req[r].kv = req[r].slot
      /\ req[r].srcKv = req[r].src /\ req[r].src # req[r].slot
  BY DEF Seeded, GuardShape
<1>2. content' \in [Slots -> Contents]
  BY <1>1 DEF Seeded, Contents
<1>3. [req EXCEPT ![r].pc = "held", ![r].src = None, ![r].srcKv = None] = [req EXCEPT ![r] = g]
  BY DEF GuardType
<1>4. /\ g \in GuardType(PoolPcs) /\ g.pc = "held" /\ g.slot = req[r].slot /\ g.kv = req[r].kv
      /\ g.src = None /\ g.srcKv = None
  BY DEF GuardType, PoolPcs, OptKv
<1> HIDE DEF g
<1>5. CASE req[r].src = None
  <2>1. req' = [req EXCEPT ![r] = g] /\ UNCHANGED <<slots, cold>>
    BY <1>3, <1>5 DEF Seeded
  <2>2. PoolTypeOK'
    BY <1>2, <1>4, <2>1
  <2>3. \A q \in Requests :
          /\ req'[q].slot = req[q].slot /\ req'[q].kv = req[q].kv
          /\ req'[q].src = req[q].src /\ req'[q].srcKv = req[q].srcKv
          /\ req'[q].pc = IF q = r THEN "held" ELSE req[q].pc
    BY <1>1, <1>4, <1>5, <2>1
  <2>4. GuardShape' /\ Exclusive'
    BY <1>1, <1>5, <2>1, <2>3 DEF GuardShape, Exclusive
  <2>5. ColdShape' /\ SlotShape'
    BY <2>1 DEF ColdShape, SlotShape
  <2> QED
    BY <2>2, <2>4, <2>5
<1>6. CASE req[r].src # None
  <2>1. req[r].src \in Slots
    BY <1>6 DEF GuardType, OptKv
  <2>2. /\ slots' = [slots EXCEPT ![req[r].src] = Returned(req[r].src, slots[req[r].src].key)]
        /\ NotifyFreed([req EXCEPT ![r] = g])
    BY <1>1, <1>3, <1>6 DEF Seeded
  <2>3. slots[req[r].src].key \in Keys \cup {NoKey}
    BY <2>1 DEF SlotType
  <2>4. \A s \in Slots : (g.kv = s \/ g.srcKv = s) <=>
                         (req[r].kv = s \/ req[r].srcKv = s) /\ s # req[r].src
    BY <1>1, <1>4
  <2> QED
    BY <1>1, <1>2, <1>4, <2>1, <2>2, <2>3, <2>4, ReturnInv
<1> QED
  BY <1>5, <1>6

\* A guard's drop returns its KV to its slot.
LEMMA ReleaseInv ==
  ASSUME IInv, NEW r \in Requests, Release(r)
  PROVE  IInv'
<1> USE PoolAssumption DEF IInv, PoolTypeOK
<1> DEFINE g == [NoGuard EXCEPT !.pc = "done"]
<1>1. /\ req[r].pc = "release" /\ req[r].slot \in Slots /\ req[r].kv = req[r].slot
      /\ req[r].srcKv = None
  BY DEF Release, GuardShape
<1>2. g \in GuardType(PoolPcs) /\ g.kv = None /\ g.srcKv = None
  BY DEF GuardType, PoolPcs, OptKv, NoGuard
<1>3. KeyOf[r] \in Keys \cup {NoKey}
  OBVIOUS
<1>4. /\ slots' = [slots EXCEPT ![req[r].slot] = Returned(req[r].slot, KeyOf[r])]
      /\ NotifyFreed([req EXCEPT ![r] = g])
      /\ content' = content
  BY <1>1 DEF Release
<1>5. \A s \in Slots : (g.kv = s \/ g.srcKv = s) <=>
                       (req[r].kv = s \/ req[r].srcKv = s) /\ s # req[r].slot
  BY <1>1, <1>2
<1> HIDE DEF g
<1>6. g = [NoGuard EXCEPT !.pc = "done"]
  BY DEF g
<1> QED
  BY <1>1, <1>2, <1>3, <1>4, <1>5, <1>6, ReturnInv

-----------------------------------------------------------------------------
(* The cold worker. *)

\* The cold worker reserves the KV of a free slot.
LEMMA ColdReserveInv == IInv /\ ColdReserve => IInv'
<1> SUFFICES ASSUME IInv, ColdReserve PROVE IInv'
  OBVIOUS
<1> USE PoolAssumption DEF IInv, PoolTypeOK
<1>1. PICK s \in Slots :
        /\ Spillable(s)
        /\ cold' = [pc |-> "spill", slot |-> s, kv |-> slots[s].kv]
        /\ slots' = [slots EXCEPT ![s].busy = TRUE, ![s].idle = FALSE, ![s].kv = None]
  BY DEF ColdReserve
<1>2. ~slots[s].busy /\ slots[s].kv = s /\ cold.kv = None /\ UNCHANGED <<content, req>>
  BY <1>1 DEF Spillable, SlotShape, ColdReserve, ColdShape, ColdType
<1>3. /\ slots'[s].busy /\ slots'[s].kv = None
      /\ \A x \in Slots : x # s => slots'[x] = slots[x]
  BY <1>1 DEF SlotType
<1>4. PoolTypeOK'
  BY <1>1, <1>2 DEF SlotType, ColdType, OptKv
<1>5. GuardShape' /\ ColdShape' /\ SlotShape'
  BY <1>1, <1>2, <1>3 DEF GuardShape, ColdShape, SlotShape
<1>6. Exclusive'
  BY <1>1, <1>2, <1>3 DEF Exclusive
<1> QED
  BY <1>4, <1>5, <1>6

\* ... and puts it back.
LEMMA ColdReturnInv == IInv /\ ColdReturn => IInv'
<1> SUFFICES ASSUME IInv, ColdReturn PROVE IInv'
  OBVIOUS
<1> USE PoolAssumption DEF IInv, PoolTypeOK
<1> DEFINE s == cold.slot
<1>1. s \in Slots /\ cold.kv = s
  BY DEF ColdReturn, ColdShape, ColdType, OptKv
<1>2. /\ slots'[s].kv = s /\ ~slots'[s].busy
      /\ \A x \in Slots : x # s => slots'[x] = slots[x]
      /\ slots' \in [Slots -> SlotType]
  BY <1>1 DEF ColdReturn, SlotType, OptKv
<1>3. cold' = [pc |-> "scan", slot |-> None, kv |-> None]
  BY DEF ColdReturn
<1>4. /\ req' \in [Requests -> GuardType(PoolPcs)]
      /\ \A q \in Requests :
           /\ req'[q].slot = req[q].slot /\ req'[q].kv = req[q].kv
           /\ req'[q].src = req[q].src /\ req'[q].srcKv = req[q].srcKv
           /\ req'[q].pc = req[q].pc \/ (req[q].pc = "asleep" /\ req'[q].pc = "checkout")
  <2>1. req' = [q \in Requests |-> IF q \in Sleepers THEN [req[q] EXCEPT !.pc = "checkout"]
                                                    ELSE req[q]]
    BY DEF ColdReturn
  <2>2. \A q \in Requests : q \in Sleepers <=> req[q].pc = "asleep"
    BY DEF Sleepers
  <2>3. \A q \in Requests : req[q] \in GuardType(PoolPcs)
    OBVIOUS
  <2> HIDE DEF IInv, PoolTypeOK
  <2> QED
    BY <2>1, <2>2, <2>3 DEF GuardType, PoolPcs
<1>5. content' \in [Slots -> Contents]
  BY <1>1 DEF ColdReturn, Contents
<1>6. PoolTypeOK'
  BY <1>2, <1>3, <1>4, <1>5 DEF ColdType, OptKv
<1>7. GuardShape'
  BY <1>4 DEF GuardShape
<1>8. ColdShape' /\ SlotShape'
  BY <1>2, <1>3 DEF ColdShape, SlotShape
<1>9. Exclusive'
  <2>1. \A q \in Requests : req[q].kv # s /\ req[q].srcKv # s
    BY <1>1 DEF Exclusive
  <2>2. \A x \in Slots : x # s => cold.kv # x
    BY <1>1
  <2>3. \A x \in Slots : cold'.kv # x
    BY <1>3
  <2> QED
    BY <1>2, <1>4, <2>1, <2>2, <2>3 DEF Exclusive
<1> QED
  BY <1>6, <1>7, <1>8, <1>9

-----------------------------------------------------------------------------
\* Every step of the pool preserves the inductive invariant.
LEMMA PoolStepInv == IInv /\ [PoolNext]_poolVars => IInv'
<1> SUFFICES ASSUME IInv, [PoolNext]_poolVars PROVE IInv'
  OBVIOUS
<1>1. ASSUME NEW r \in Requests, Request(r) PROVE IInv'
  <2> USE <1>1
  <2>1. CASE GoCheckout(r, "idle")
    BY <2>1, EmptyHandedInv DEF GoCheckout
  <2>2. CASE CheckoutSleep(r)
    BY <2>2, EmptyHandedInv DEF CheckoutSleep
  <2>3. CASE CheckoutText(r)
    <3>0. PICK t \in Free : \E src \in (Free \ {t}) \cup {None} :
            /\ slots' = [s \in Slots |-> IF s = t \/ s = src THEN Reserved(s) ELSE slots[s]]
            /\ content' = IF slots[t].key = NoKey THEN content
                          ELSE [content EXCEPT ![slots[t].kv] = "empty"]
            /\ req' = [req EXCEPT ![r] =
                         [pc    |-> IF HasCache \/ src # None THEN "seed" ELSE "held",
                          slot  |-> t, kv |-> slots[t].kv,
                          src   |-> src, srcKv |-> IF src = None THEN None ELSE slots[src].kv]]
            /\ UNCHANGED cold
      BY <2>3 DEF CheckoutText
    <3>1. PICK src \in (Free \ {t}) \cup {None} :
            /\ slots' = [s \in Slots |-> IF s = t \/ s = src THEN Reserved(s) ELSE slots[s]]
            /\ content' = IF slots[t].key = NoKey THEN content
                          ELSE [content EXCEPT ![slots[t].kv] = "empty"]
            /\ req' = [req EXCEPT ![r] =
                         [pc    |-> IF HasCache \/ src # None THEN "seed" ELSE "held",
                          slot  |-> t, kv |-> slots[t].kv,
                          src   |-> src, srcKv |-> IF src = None THEN None ELSE slots[src].kv]]
            /\ UNCHANGED cold
      BY <3>0
    <3>2. slots[t].kv \in Slots
      BY DEF IInv, SlotShape, Free
    <3>3. content' \in [Slots -> Contents]
      BY <3>1, <3>2 DEF IInv, PoolTypeOK, Contents
    <3>4. req[r].pc = "checkout"
      BY <2>3 DEF CheckoutText
    <3> DEFINE pc == IF HasCache \/ src # None THEN "seed" ELSE "held"
    <3>5. pc \in {"seed", "held"} /\ (src # None => pc = "seed")
      OBVIOUS
    <3>6. req' = [req EXCEPT ![r] = [pc |-> pc, slot |-> t, kv |-> slots[t].kv, src |-> src,
                                     srcKv |-> IF src = None THEN None ELSE slots[src].kv]]
      BY <3>1
    <3>7. /\ slots' = [s \in Slots |-> IF s = t \/ s = src THEN Reserved(s) ELSE slots[s]]
          /\ UNCHANGED cold
      BY <3>1
    <3> HIDE DEF pc
    <3> QED
      BY <3>3, <3>4, <3>5, <3>6, <3>7, CheckoutInv
  <2>4. CASE CheckoutImage(r)
    <3>1. PICK t \in Free :
            /\ slots' = [slots EXCEPT ![t] = Reserved(t)]
            /\ content' \in {[content EXCEPT ![slots[t].kv] = "empty"]} \cup
                            (IF slots[t].key = KeyOf[r] THEN {content} ELSE {})
            /\ req' = [req EXCEPT ![r] =
                         [pc |-> "held", slot |-> t, kv |-> slots[t].kv, src |-> None, srcKv |-> None]]
            /\ UNCHANGED cold
      BY <2>4 DEF CheckoutImage
    <3>2. slots[t].kv \in Slots /\ t \in Slots
      BY DEF IInv, SlotShape, Free
    <3>3. content' \in [Slots -> Contents]
      BY <3>1, <3>2 DEF IInv, PoolTypeOK, Contents
    <3>4. slots' = [s \in Slots |-> IF s = t \/ s = None THEN Reserved(s) ELSE slots[s]]
      BY <3>1, <3>2, PoolAssumption DEF IInv, PoolTypeOK
    <3>5. req' = [req EXCEPT ![r] = [pc |-> "held", slot |-> t, kv |-> slots[t].kv,
                                     src |-> None, srcKv |-> IF None = None THEN None ELSE slots[None].kv]]
      BY <3>1
    <3>6. req[r].pc = "checkout"
      BY <2>4 DEF CheckoutImage
    <3>7. /\ None \in (Free \ {t}) \cup {None} /\ (None # None => "held" = "seed")
          /\ "held" \in {"seed", "held"} /\ UNCHANGED cold
      BY <3>1
    <3> QED
      BY <3>3, <3>4, <3>5, <3>6, <3>7, CheckoutInv
  <2>5. CASE Seeded(r)
    BY <2>5, SeededInv
  <2>6. CASE RunLegacy(r, {"release"})
    BY <2>6, LegacyInv
  <2>7. CASE Release(r)
    BY <2>7, ReleaseInv
  <2> QED
    BY <2>1, <2>2, <2>3, <2>4, <2>5, <2>6, <2>7 DEF Request
<1>2. CASE ColdReserve
  BY <1>2, ColdReserveInv
<1>3. CASE ColdSleep
  BY <1>3 DEF ColdSleep, IInv, PoolTypeOK, ColdType, GuardShape, ColdShape, SlotShape, Exclusive
<1>4. CASE ColdReturn
  BY <1>4, ColdReturnInv
<1>5. CASE UNCHANGED poolVars
  BY <1>5 DEF poolVars, IInv, PoolTypeOK, GuardShape, ColdShape, SlotShape, Exclusive
<1> QED
  BY <1>1, <1>2, <1>3, <1>4, <1>5 DEF PoolNext, ColdNext, Idle

\* The inductive invariant holds in every reachable state.
LEMMA PoolInductive == PoolSpec => []IInv
<1>1. PoolInit => IInv
  BY PoolInitInv
<1>2. IInv /\ [PoolNext]_poolVars => IInv'
  BY PoolStepInv
<1> QED
  BY <1>1, <1>2, PTL DEF PoolSpec

\* The pool, the guards and the cold worker keep their types, for every set of slots, calls and
\* images.
THEOREM PoolTypeCorrect == PoolSpec => []PoolTypeOK
<1>1. IInv => PoolTypeOK
  BY DEF IInv
<1> QED
  BY <1>1, PoolInductive, PTL

\* The holders of a KV, pairwise exclusive, are no holder or a single one as a set.
LEMMA ExclusiveIsSole == IInv => SoleOwner
<1> SUFFICES ASSUME IInv, NEW s \in Slots
             PROVE  \/ ~slots[s].busy /\ slots[s].kv = s /\ HoldersOf(s) = {}
                    \/ /\ slots[s].busy /\ slots[s].kv = None
                       /\ \E h \in HoldersOf(s) : HoldersOf(s) = {h}
  BY DEF SoleOwner
<1> USE DEF IInv
<1>1. slots[s].busy \in BOOLEAN /\ slots[s].kv = IF slots[s].busy THEN None ELSE s
  BY DEF SlotShape, PoolTypeOK, SlotType
<1>2. CASE ~slots[s].busy
  BY <1>1, <1>2 DEF Exclusive, HoldersOf
<1>3. CASE slots[s].busy
  <2>1. CASE cold.kv = s
    <3>1. HoldersOf(s) = {<<"cold", None>>}
      BY <2>1 DEF Exclusive, HoldersOf
    <3> QED
      BY <1>1, <1>3, <3>1
  <2>2. CASE cold.kv # s
    <3>1. PICK r \in Requests : req[r].kv = s \/ req[r].srcKv = s
      BY <1>3, <2>2 DEF Exclusive
    <3>2. \A q \in Requests : req[q].kv = s \/ req[q].srcKv = s => q = r
      BY <3>1 DEF Exclusive
    <3>3. ~(req[r].kv = s /\ req[r].srcKv = s)
      BY PoolAssumption DEF GuardShape, PoolTypeOK, GuardType
    <3>4. CASE req[r].kv = s
      <4>1. HoldersOf(s) = {<<"guard", r>>}
        BY <2>2, <3>2, <3>3, <3>4 DEF HoldersOf
      <4> QED
        BY <1>1, <1>3, <4>1
    <3>5. CASE req[r].srcKv = s
      <4>1. HoldersOf(s) = {<<"source", r>>}
        BY <2>2, <3>2, <3>3, <3>5 DEF HoldersOf
      <4> QED
        BY <1>1, <1>3, <4>1
    <3> QED
      BY <3>1, <3>4, <3>5
  <2> QED
    BY <2>1, <2>2
<1> QED
  BY <1>1, <1>2, <1>3

\* No checkout, prefix copy, generation, spill or return of any number of calls over any number
\* of slots loses, doubles or misplaces a KV: it is in its free slot or with one holder.
THEOREM SoleOwnership == PoolSpec => []SoleOwner
<1>1. IInv => SoleOwner
  BY ExclusiveIsSole
<1> QED
  BY <1>1, PoolInductive, PTL

-----------------------------------------------------------------------------
(***************************************************************************)
(* KeyTruth.  What a free slot says of its KV depends on what the holder   *)
(* left in it, so the inductive invariant follows the state through the    *)
(* holders: a request's KV holds what that request computes, a reserved    *)
(* KV only token state.                                                    *)
(***************************************************************************)
TextSlot(s) == slots[s].key = NoKey /\ content[s] \in {"empty", "text"}

\* A free slot's key describes its KV.
FreeState ==
  \A s \in Slots : ~slots[s].busy =>
    IF slots[s].key = NoKey THEN content[s] \in {"empty", "text"}
                            ELSE content[s] \in {"empty", slots[s].key}

\* A guard's KV holds nothing or what its request computes; only text requests seed.
HeldState ==
  \A r \in Requests :
    /\ req[r].pc \in {"seed", "held", "release"} =>
         content[req[r].kv] \in {"empty", ContentOf(r)}
    /\ req[r].pc = "seed" => ~IsImage(r)

\* A copy source and a KV being spilled hold token state, and their slots say so.
ReservedState ==
  /\ \A r \in Requests : req[r].src # None => TextSlot(req[r].src)
  /\ cold.slot # None => TextSlot(cold.slot)

KInv == IInv /\ FreeState /\ HeldState /\ ReservedState

\* The initial states satisfy it: every KV is empty and every key absent.
LEMMA KeyInit == PoolInit => KInv
<1> SUFFICES ASSUME PoolInit PROVE KInv
  OBVIOUS
<1>1. IInv
  BY PoolInitInv
<1>2. FreeState /\ HeldState /\ ReservedState
  BY DEF PoolInit, NoGuard, FreeState, HeldState, ReservedState
<1> QED
  BY <1>1, <1>2 DEF KInv

\* A KV with a holder is of no free slot, of no other guard, and not reserved by anyone else.
LEMMA HolderExcludes ==
  ASSUME IInv, NEW r \in Requests, NEW x \in Slots, req[r].kv = x \/ req[r].srcKv = x
  PROVE  /\ slots[x].busy /\ cold.slot # x
         /\ \A q \in Requests : q # r => req[q].kv # x /\ req[q].src # x
BY DEF IInv, Exclusive, GuardShape, ColdShape

\* A checkout takes a KV whose state suits the request, and as a source only token state.
LEMMA CheckoutKey ==
  ASSUME KInv, IInv', NEW r \in Requests, req[r].pc = "checkout",
         NEW t \in Free, NEW src \in (Free \ {t}) \cup {None},
         NEW pc \in {"seed", "held"}, pc = "seed" => ~IsImage(r),
         src # None => slots[src].key = NoKey,
         slots' = [s \in Slots |-> IF s = t \/ s = src THEN Reserved(s) ELSE slots[s]],
         req' = [req EXCEPT ![r] =
                   [pc |-> pc, slot |-> t, kv |-> slots[t].kv, src |-> src,
                    srcKv |-> IF src = None THEN None ELSE slots[src].kv]],
         content' \in [Slots -> Contents],
         \A s \in Slots : s # t => content'[s] = content[s],
         content'[t] \in {"empty", ContentOf(r)}, UNCHANGED cold
  PROVE  KInv'
<1> USE PoolAssumption DEF KInv
<1>1. /\ t \in Slots /\ slots[t].kv = t /\ ~slots[t].busy
      /\ src # None => src \in Slots /\ slots[src].kv = src /\ ~slots[src].busy /\ src # t
  BY DEF Free, IInv, SlotShape
<1>2. /\ req'[r] = [pc |-> pc, slot |-> t, kv |-> t, src |-> src, srcKv |-> src]
      /\ \A q \in Requests : q # r => req'[q] = req[q]
  BY <1>1 DEF IInv, PoolTypeOK
<1>3. \A s \in Slots : IF s = t \/ s = src THEN slots'[s].busy /\ slots'[s].key = NoKey
                                           ELSE slots'[s] = slots[s]
  BY DEF Reserved, IInv, PoolTypeOK, SlotType
<1>4. FreeState'
  BY <1>3 DEF FreeState
<1>5. \A q \in Requests : req[q].kv # t /\ req[q].src # t /\ req[q].src \in OptKv /\ req[q].kv \in OptKv
  BY <1>1 DEF IInv, Exclusive, GuardShape, PoolTypeOK, GuardType
<1>6. HeldState'
  BY <1>1, <1>2, <1>5 DEF HeldState, IInv, GuardShape, IsImage, ContentOf
<1>7. cold.slot # t /\ cold.slot \in OptKv
  BY <1>1 DEF IInv, Exclusive, ColdShape, PoolTypeOK, ColdType
<1>8. src # None => content[src] \in {"empty", "text"}
  BY <1>1 DEF FreeState
<1>9. ReservedState'
  BY <1>1, <1>2, <1>3, <1>5, <1>7, <1>8 DEF ReservedState, TextSlot, OptKv
<1> QED
  BY <1>4, <1>6, <1>9

\* A thread that holds nothing moves between program points.
LEMMA EmptyHandedKey ==
  ASSUME KInv, IInv', NEW r \in Requests, NEW pc \in {"checkout", "asleep"},
         req' = [req EXCEPT ![r].pc = pc], UNCHANGED <<slots, content, cold>>
  PROVE  KInv'
<1>1. \A q \in Requests :
        /\ req'[q].kv = req[q].kv /\ req'[q].src = req[q].src
        /\ req'[q].pc = IF q = r THEN pc ELSE req[q].pc
  BY DEF KInv, IInv, PoolTypeOK, GuardType
<1>2. FreeState' /\ HeldState' /\ ReservedState'
  BY <1>1 DEF KInv, FreeState, HeldState, ReservedState, TextSlot, IsImage, ContentOf
<1> QED
  BY <1>2 DEF KInv

\* A holder that keeps its KV leaves in it nothing or what its request computes.
LEMMA ComputeKey ==
  ASSUME KInv, IInv', NEW r \in Requests, req[r].pc \in {"seed", "held"},
         NEW c \in {"empty", ContentOf(r)}, content' = [content EXCEPT ![req[r].kv] = c],
         \A q \in Requests : q # r => req'[q] = req[q],
         req'[r].kv = req[r].kv, req'[r].pc # "seed", req'[r].src = None,
         UNCHANGED <<slots, cold>>
  PROVE  KInv'
<1> USE PoolAssumption DEF KInv
<1> DEFINE x == req[r].kv
<1>1. x \in Slots
  BY DEF IInv, GuardShape
<1>2. content'[x] = c /\ \A s \in Slots : s # x => content'[s] = content[s]
  BY <1>1 DEF IInv, PoolTypeOK
<1>3. /\ slots[x].busy /\ cold.slot # x
      /\ \A q \in Requests : q # r => req[q].kv # x /\ req[q].src # x
  BY <1>1, HolderExcludes
<1>4. \A q \in Requests : req[q].src \in OptKv
  BY DEF IInv, PoolTypeOK, GuardType
<1>5. cold.slot \in OptKv
  BY DEF IInv, PoolTypeOK, ColdType
<1> HIDE DEF x
<1>6. FreeState'
  BY <1>2, <1>3 DEF FreeState
<1>7. HeldState'
  <2>1. ASSUME NEW q \in Requests
        PROVE  /\ req'[q].pc \in {"seed", "held", "release"} =>
                    content'[req'[q].kv] \in {"empty", ContentOf(q)}
               /\ req'[q].pc = "seed" => ~IsImage(q)
    <3>1. CASE q = r
      BY <1>2, <3>1 DEF x
    <3>2. CASE q # r
      BY <1>2, <1>3, <3>2 DEF HeldState, IInv, GuardShape
    <3> QED
      BY <3>1, <3>2
  <2> QED
    BY <2>1 DEF HeldState, ContentOf, IsImage
<1>8. ReservedState'
  BY <1>2, <1>3, <1>4, <1>5 DEF ReservedState, TextSlot, OptKv
<1> QED
  BY <1>6, <1>7, <1>8

\* A KV put back under a key that describes it, while the holder keeps at most its own KV.
LEMMA ReturnKey ==
  ASSUME KInv, IInv', NEW r \in Requests, NEW x \in Slots, NEW g \in GuardType(PoolPcs),
         req[r].kv = x \/ req[r].srcKv = x, req[r].pc \in {"seed", "release"},
         g.pc \in {"held", "done"}, g.pc = "held" => g.kv = req[r].kv, g.src = None,
         NEW c \in {"empty", ContentOf(r)}, content' = [content EXCEPT ![req[r].kv] = c],
         NEW key \in Keys \cup {NoKey},
         content'[x] \in {"empty", IF key = NoKey THEN "text" ELSE key},
         slots' = [slots EXCEPT ![x] = Returned(x, key)],
         NotifyFreed([req EXCEPT ![r] = g])
  PROVE  KInv'
<1> DEFINE rq == [req EXCEPT ![r] = g]
<1> DEFINE y == req[r].kv
<1> USE PoolAssumption DEF KInv
<1>1. /\ rq \in [Requests -> GuardType(PoolPcs)] /\ rq[r] = g /\ cold \in ColdType
      /\ \A q \in Requests : q # r => rq[q] = req[q]
  BY DEF IInv, PoolTypeOK
<1>2. y \in Slots
  BY DEF IInv, GuardShape
<1>3. content'[y] = c /\ \A s \in Slots : s # y => content'[s] = content[s]
  BY <1>2 DEF IInv, PoolTypeOK
<1>4. NotifyFreed(rq)
  OBVIOUS
<1> HIDE DEF rq, y
<1>5. /\ cold'.slot = cold.slot
      /\ \A q \in Requests :
           /\ req'[q].kv = rq[q].kv /\ req'[q].src = rq[q].src
           /\ \/ req'[q].pc = rq[q].pc
              \/ rq[q].pc = "asleep" /\ req'[q].pc = "checkout"
  BY <1>1, <1>4, NotifyMovesNothing, "checkout" \in PoolPcs DEF PoolPcs
<1>6. /\ slots[y].busy /\ cold.slot # y
      /\ \A q \in Requests : q # r => req[q].kv # y /\ req[q].src # y
  BY <1>2, HolderExcludes DEF y
<1>7. /\ cold.slot # x
      /\ \A q \in Requests : q # r => req[q].kv # x /\ req[q].src # x
  BY HolderExcludes
<1>8. /\ ~slots'[x].busy /\ slots'[x].key = key
      /\ \A s \in Slots : s # x => slots'[s] = slots[s]
  BY DEF IInv, PoolTypeOK, Returned
<1>9. cold.slot \in OptKv /\ \A q \in Requests : req[q].src \in OptKv
  BY <1>1 DEF IInv, PoolTypeOK, GuardType, ColdType
<1>10. FreeState'
  BY <1>3, <1>6, <1>8 DEF FreeState
<1>11. HeldState'
  <2>1. ASSUME NEW q \in Requests
        PROVE  /\ req'[q].pc \in {"seed", "held", "release"} =>
                    content'[req'[q].kv] \in {"empty", ContentOf(q)}
               /\ req'[q].pc = "seed" => ~IsImage(q)
    <3>1. CASE q = r
      BY <1>1, <1>3, <1>5, <3>1 DEF y
    <3>2. CASE q # r
      <4>1. rq[q] = req[q] /\ req[q].kv # y
        BY <1>1, <1>6, <3>2
      <4>2. CASE req'[q].pc \in {"seed", "held", "release"}
        <5>1. req[q].pc = req'[q].pc /\ req'[q].kv = req[q].kv
          BY <1>5, <4>1, <4>2
        <5>2. req[q].kv \in Slots
          BY <4>2, <5>1 DEF IInv, GuardShape
        <5> QED
          BY <1>3, <4>1, <4>2, <5>1, <5>2 DEF HeldState
      <4> QED
        BY <4>2
    <3> QED
      BY <3>1, <3>2
  <2> QED
    BY <2>1 DEF HeldState, ContentOf, IsImage
<1>12. ReservedState'
  <2>1. \A s \in Slots : TextSlot(s) /\ s # x /\ s # y => TextSlot(s)'
    BY <1>3, <1>8 DEF TextSlot
  <2>2. (cold.slot # None => TextSlot(cold.slot))'
    BY <1>5, <1>6, <1>7, <1>9, <2>1 DEF ReservedState, OptKv, TextSlot
  <2>3. (\A q \in Requests : req[q].src # None => TextSlot(req[q].src))'
    <3> SUFFICES ASSUME NEW q \in Requests, req'[q].src # None
                 PROVE  slots'[req'[q].src].key = NoKey /\ content'[req'[q].src] \in {"empty", "text"}
      BY DEF TextSlot
    <3>1. q # r /\ req'[q].src = req[q].src
      BY <1>1, <1>5
    <3>2. req[q].src \in Slots /\ req[q].src # x /\ req[q].src # y /\ TextSlot(req[q].src)
      BY <1>6, <1>7, <1>9, <3>1 DEF ReservedState, OptKv
    <3> QED
      BY <2>1, <3>1, <3>2 DEF TextSlot
  <2> QED
    BY <2>2, <2>3 DEF ReservedState
<1> QED
  BY <1>10, <1>11, <1>12

\* The cold worker reserves a KV of token state and returns it empty or as it was.
LEMMA ColdKey ==
  ASSUME KInv, IInv', ColdReserve \/ ColdSleep \/ ColdReturn
  PROVE  KInv'
<1> USE PoolAssumption DEF KInv
<1>1. CASE ColdReserve
  <2>1. PICK s \in Slots :
          /\ Spillable(s)
          /\ cold' = [pc |-> "spill", slot |-> s, kv |-> slots[s].kv]
          /\ slots' = [slots EXCEPT ![s].busy = TRUE, ![s].idle = FALSE, ![s].kv = None]
    BY <1>1 DEF ColdReserve
  <2>2. /\ ~slots[s].busy /\ slots[s].key = NoKey /\ UNCHANGED <<content, req>>
        /\ slots'[s].busy /\ \A z \in Slots : slots'[z].key = slots[z].key
        /\ \A z \in Slots : z # s => slots'[z] = slots[z]
    BY <1>1, <2>1 DEF Spillable, ColdReserve, IInv, PoolTypeOK, SlotType
  <2>3. FreeState'
    BY <2>2 DEF FreeState
  <2>4. HeldState'
    BY <2>2 DEF HeldState, ContentOf, IsImage
  <2>5. \A q \in Requests : req[q].src \in OptKv
    BY DEF IInv, PoolTypeOK, GuardType
  <2>6. ReservedState'
    BY <2>1, <2>2, <2>5 DEF ReservedState, FreeState, TextSlot, OptKv
  <2> QED
    BY <2>3, <2>4, <2>6
<1>2. CASE ColdSleep
  <2>1. cold'.slot = cold.slot /\ UNCHANGED <<slots, content, req>>
    BY <1>2 DEF ColdSleep, IInv, PoolTypeOK, ColdType
  <2>2. FreeState' /\ HeldState' /\ ReservedState'
    BY <2>1 DEF FreeState, HeldState, ReservedState, TextSlot, ContentOf, IsImage
  <2> QED
    BY <2>2
<1>3. CASE ColdReturn
  <2> DEFINE s == cold.slot
  <2>1. s \in Slots /\ cold.kv = s /\ TextSlot(s) /\ slots[s].busy
    BY <1>3 DEF ColdReturn, IInv, PoolTypeOK, ColdShape, ColdType, OptKv, ReservedState, Exclusive
  <2>2. \A q \in Requests : req[q].kv # s /\ req[q].src # s
    BY <2>1 DEF IInv, Exclusive, GuardShape
  <2>3. /\ content'[s] \in {"empty", "text"}
        /\ \A z \in Slots : z # s => content'[z] = content[z]
    BY <1>3, <2>1 DEF ColdReturn, TextSlot, IInv, PoolTypeOK
  <2>4. /\ \A z \in Slots : slots'[z].key = slots[z].key
        /\ \A z \in Slots : z # s => slots'[z] = slots[z]
    BY <1>3, <2>1 DEF ColdReturn, IInv, PoolTypeOK, SlotType
  <2>5. /\ cold'.slot = None
        /\ \A q \in Requests :
             /\ req'[q].kv = req[q].kv /\ req'[q].src = req[q].src /\ req[q].src \in OptKv
             /\ req'[q].pc = req[q].pc \/ req'[q].pc = "checkout"
    <3>1. req' = [q \in Requests |-> IF q \in Sleepers THEN [req[q] EXCEPT !.pc = "checkout"]
                                                      ELSE req[q]]
      BY <1>3 DEF ColdReturn
    <3>2. \A q \in Requests : req[q] \in GuardType(PoolPcs)
      BY DEF IInv, PoolTypeOK
    <3>3. cold'.slot = None
      BY <1>3 DEF ColdReturn
    <3> HIDE DEF KInv
    <3> QED
      BY <3>1, <3>2, <3>3 DEF GuardType
  <2> HIDE DEF s
  <2>6. FreeState'
    BY <2>1, <2>3, <2>4 DEF FreeState, TextSlot
  <2>7. HeldState'
    BY <2>2, <2>3, <2>5 DEF HeldState, IInv, GuardShape, ContentOf, IsImage
  <2>8. ReservedState'
    BY <2>2, <2>3, <2>4, <2>5 DEF ReservedState, TextSlot, OptKv
  <2> QED
    BY <2>6, <2>7, <2>8
<1> QED
  BY <1>1, <1>2, <1>3

\* Every step of a request thread preserves the key invariant.
LEMMA RequestKey ==
  ASSUME KInv, IInv', NEW r \in Requests, Request(r)
  PROVE  KInv'
<1> USE PoolAssumption
<1>0. IInv
  BY DEF KInv
<1>1. CASE GoCheckout(r, "idle")
  BY <1>1, EmptyHandedKey DEF GoCheckout
<1>2. CASE CheckoutSleep(r)
  BY <1>2, EmptyHandedKey DEF CheckoutSleep
<1>3. CASE CheckoutText(r)
  <2>1. PICK t \in Free : \E src \in (Free \ {t}) \cup {None} :
          /\ src # None => slots[src].key = NoKey
          /\ slots' = [s \in Slots |-> IF s = t \/ s = src THEN Reserved(s) ELSE slots[s]]
          /\ content' = IF slots[t].key = NoKey THEN content
                        ELSE [content EXCEPT ![slots[t].kv] = "empty"]
          /\ req' = [req EXCEPT ![r] =
                       [pc    |-> IF HasCache \/ src # None THEN "seed" ELSE "held",
                        slot  |-> t, kv |-> slots[t].kv,
                        src   |-> src, srcKv |-> IF src = None THEN None ELSE slots[src].kv]]
          /\ UNCHANGED cold
    BY <1>3 DEF CheckoutText
  <2>2. PICK src \in (Free \ {t}) \cup {None} :
          /\ src # None => slots[src].key = NoKey
          /\ slots' = [s \in Slots |-> IF s = t \/ s = src THEN Reserved(s) ELSE slots[s]]
          /\ content' = IF slots[t].key = NoKey THEN content
                        ELSE [content EXCEPT ![slots[t].kv] = "empty"]
          /\ req' = [req EXCEPT ![r] =
                       [pc    |-> IF HasCache \/ src # None THEN "seed" ELSE "held",
                        slot  |-> t, kv |-> slots[t].kv,
                        src   |-> src, srcKv |-> IF src = None THEN None ELSE slots[src].kv]]
          /\ UNCHANGED cold
    BY <2>1
  <2>3. t \in Slots /\ slots[t].kv = t /\ ~slots[t].busy
    BY <1>0 DEF Free, IInv, SlotShape
  <2>4. req[r].pc = "checkout" /\ ~IsImage(r)
    BY <1>3 DEF CheckoutText
  <2>5. content[t] \in {"empty", "text"} \/ slots[t].key # NoKey
    BY <2>3 DEF KInv, FreeState
  <2>6. /\ content' \in [Slots -> Contents]
        /\ \A s \in Slots : s # t => content'[s] = content[s]
        /\ content'[t] \in {"empty", ContentOf(r)}
    BY <1>0, <2>2, <2>3, <2>4, <2>5 DEF IInv, PoolTypeOK, ContentOf, Contents
  <2> DEFINE pc == IF HasCache \/ src # None THEN "seed" ELSE "held"
  <2>7. pc \in {"seed", "held"}
    OBVIOUS
  <2>8. req' = [req EXCEPT ![r] = [pc |-> pc, slot |-> t, kv |-> slots[t].kv, src |-> src,
                                   srcKv |-> IF src = None THEN None ELSE slots[src].kv]]
    BY <2>2
  <2>9. /\ src # None => slots[src].key = NoKey
        /\ slots' = [s \in Slots |-> IF s = t \/ s = src THEN Reserved(s) ELSE slots[s]]
        /\ UNCHANGED cold /\ (pc = "seed" => ~IsImage(r))
    BY <2>2, <2>4
  <2> HIDE DEF pc
  <2> QED
    BY <2>4, <2>6, <2>7, <2>8, <2>9, CheckoutKey
<1>4. CASE CheckoutImage(r)
  <2>1. PICK t \in Free :
          /\ slots' = [slots EXCEPT ![t] = Reserved(t)]
          /\ content' \in {[content EXCEPT ![slots[t].kv] = "empty"]} \cup
                          (IF slots[t].key = KeyOf[r] THEN {content} ELSE {})
          /\ req' = [req EXCEPT ![r] =
                       [pc |-> "held", slot |-> t, kv |-> slots[t].kv, src |-> None, srcKv |-> None]]
          /\ UNCHANGED cold
    BY <1>4 DEF CheckoutImage
  <2>2. t \in Slots /\ slots[t].kv = t /\ ~slots[t].busy
    BY <1>0 DEF Free, IInv, SlotShape
  <2>3. req[r].pc = "checkout" /\ IsImage(r)
    BY <1>4 DEF CheckoutImage
  <2>4. slots[t].key = KeyOf[r] => content[t] \in {"empty", KeyOf[r]}
    BY <2>2, <2>3 DEF KInv, FreeState, IsImage
  <2>5. /\ content' \in [Slots -> Contents]
        /\ \A s \in Slots : s # t => content'[s] = content[s]
        /\ content'[t] \in {"empty", ContentOf(r)}
    BY <1>0, <2>1, <2>2, <2>3, <2>4 DEF IInv, PoolTypeOK, ContentOf, Contents
  <2>6. slots' = [s \in Slots |-> IF s = t \/ s = None THEN Reserved(s) ELSE slots[s]]
    BY <1>0, <2>1, <2>2 DEF IInv, PoolTypeOK
  <2>7. req' = [req EXCEPT ![r] = [pc |-> "held", slot |-> t, kv |-> slots[t].kv, src |-> None,
                                   srcKv |-> IF None = None THEN None ELSE slots[None].kv]]
    BY <2>1
  <2>8. /\ None \in (Free \ {t}) \cup {None} /\ (None # None => slots[None].key = NoKey)
        /\ "held" \in {"seed", "held"} /\ ("held" = "seed" => ~IsImage(r)) /\ UNCHANGED cold
    BY <2>1
  <2> QED
    BY <2>3, <2>5, <2>6, <2>7, <2>8, CheckoutKey
<1>5. CASE Seeded(r)
  <2>1. /\ req[r].pc = "seed" /\ ~IsImage(r) /\ req[r].kv \in Slots
        /\ req[r].srcKv = req[r].src /\ req[r].src # req[r].kv
    BY <1>0, <1>5 DEF Seeded, KInv, HeldState, IInv, GuardShape
  <2>2. PICK c \in {"text", "empty"} : content' = [content EXCEPT ![req[r].kv] = c]
    BY <1>5 DEF Seeded
  <2>3. c \in {"empty", ContentOf(r)}
    BY <2>1 DEF ContentOf
  <2> DEFINE g == [req[r] EXCEPT !.pc = "held", !.src = None, !.srcKv = None]
  <2>4. [req EXCEPT ![r].pc = "held", ![r].src = None, ![r].srcKv = None] = [req EXCEPT ![r] = g]
    BY <1>0 DEF IInv, PoolTypeOK, GuardType
  <2>5. g \in GuardType(PoolPcs) /\ g.pc = "held" /\ g.kv = req[r].kv /\ g.src = None
    BY <1>0 DEF IInv, PoolTypeOK, GuardType, PoolPcs, OptKv
  <2> HIDE DEF g
  <2>6. CASE req[r].src = None
    <3>1. req' = [req EXCEPT ![r] = g] /\ UNCHANGED <<slots, cold>>
      BY <1>5, <2>4, <2>6 DEF Seeded
    <3>2. req'[r] = g /\ \A q \in Requests : q # r => req'[q] = req[q]
      BY <1>0, <3>1 DEF IInv, PoolTypeOK
    <3> QED
      BY <2>1, <2>2, <2>3, <2>5, <3>1, <3>2, ComputeKey
  <2>7. CASE req[r].src # None
    <3> DEFINE x == req[r].src
    <3>1. x \in Slots /\ req[r].srcKv = x
      BY <1>0, <2>1, <2>7 DEF IInv, PoolTypeOK, GuardType, OptKv
    <3>2. slots[x].key = NoKey /\ content[x] \in {"empty", "text"}
      BY <2>7 DEF KInv, ReservedState, TextSlot
    <3>3. /\ slots' = [slots EXCEPT ![x] = Returned(x, NoKey)]
          /\ NotifyFreed([req EXCEPT ![r] = g])
      BY <1>5, <2>4, <2>7, <3>1, <3>2 DEF Seeded
    <3>4. content'[x] = content[x]
      BY <1>0, <2>1, <2>2, <3>1 DEF IInv, PoolTypeOK
    <3>5. content'[x] \in {"empty", IF NoKey = NoKey THEN "text" ELSE NoKey}
      BY <3>2, <3>4
    <3> HIDE DEF x
    <3> QED
      BY <2>1, <2>2, <2>3, <2>5, <3>1, <3>3, <3>5, ReturnKey
  <2> QED
    BY <2>6, <2>7
<1>6. CASE RunLegacy(r, {"release"})
  <2>1. PICK ok \in BOOLEAN, c \in {ContentOf(r), "empty"} :
          /\ content' = [content EXCEPT ![req[r].kv] = c]
          /\ req' = [req EXCEPT ![r].pc = "release"]
    BY <1>6 DEF RunLegacy
  <2>2. req[r].pc = "held" /\ UNCHANGED <<slots, cold>>
    BY <1>6 DEF RunLegacy
  <2>3. req[r].src = None
    BY <1>0, <2>2 DEF IInv, GuardShape
  <2>4. /\ req'[r].kv = req[r].kv /\ req'[r].pc = "release" /\ req'[r].src = None
        /\ \A q \in Requests : q # r => req'[q] = req[q]
    BY <1>0, <2>1, <2>3 DEF IInv, PoolTypeOK, GuardType
  <2> QED
    BY <2>1, <2>2, <2>4, ComputeKey
<1>7. CASE Release(r)
  <2> DEFINE x == req[r].slot
  <2> DEFINE g == [NoGuard EXCEPT !.pc = "done"]
  <2>1. req[r].pc = "release" /\ x \in Slots /\ req[r].kv = x
    BY <1>0, <1>7 DEF Release, IInv, GuardShape
  <2>2. /\ slots' = [slots EXCEPT ![x] = Returned(x, KeyOf[r])]
        /\ NotifyFreed([req EXCEPT ![r] = g]) /\ content' = content
    BY <1>7, <2>1 DEF Release
  <2>3. content[x] \in {"empty", ContentOf(r)} /\ KeyOf[r] \in Keys \cup {NoKey}
    BY <2>1 DEF KInv, HeldState
  <2>4. content'[x] \in {"empty", IF KeyOf[r] = NoKey THEN "text" ELSE KeyOf[r]}
    BY <2>2, <2>3 DEF ContentOf, IsImage
  <2>5. content' = [content EXCEPT ![req[r].kv] = content[x]]
    BY <1>0, <2>1, <2>2 DEF IInv, PoolTypeOK
  <2>6. g \in GuardType(PoolPcs) /\ g.pc = "done" /\ g.src = None
    BY DEF GuardType, PoolPcs, OptKv, NoGuard
  <2> HIDE DEF g, x
  <2> QED
    BY <2>1, <2>2, <2>3, <2>4, <2>5, <2>6, ReturnKey
<1> QED
  BY <1>1, <1>2, <1>3, <1>4, <1>5, <1>6, <1>7 DEF Request

\* Every step of the pool preserves the key invariant.
LEMMA KeyStep == KInv /\ [PoolNext]_poolVars => KInv'
<1> SUFFICES ASSUME KInv, [PoolNext]_poolVars PROVE KInv'
  OBVIOUS
<1>1. IInv'
  BY PoolStepInv DEF KInv
<1>2. ASSUME NEW r \in Requests, Request(r) PROVE KInv'
  BY <1>1, <1>2, RequestKey
<1>3. CASE ColdNext
  BY <1>1, <1>3, ColdKey DEF ColdNext
<1>4. CASE UNCHANGED poolVars
  <2>1. FreeState' /\ HeldState' /\ ReservedState'
    BY <1>4 DEF poolVars, KInv, FreeState, HeldState, ReservedState, TextSlot, ContentOf, IsImage
  <2> QED
    BY <1>1, <2>1 DEF KInv
<1> QED
  BY <1>2, <1>3, <1>4 DEF PoolNext, Idle

\* Whatever calls shared the slots before, a free slot's key says what its KV holds: text and
\* the cold worker meet only token state, an image call only the state of its own image.
THEOREM KeysAreTrue == PoolSpec => []KeyTruth
<1>1. PoolInit => KInv
  BY KeyInit
<1>2. KInv /\ [PoolNext]_poolVars => KInv'
  BY KeyStep
<1>3. KInv => KeyTruth
  BY DEF KInv, IInv, FreeState, SlotShape, KeyTruth, Free
<1> QED
  BY <1>1, <1>2, <1>3, PTL DEF PoolSpec
-----------------------------------------------------------------------------
(* The condition variable: NoStrandedWaiter is inductive once the sets it  *)
(* counts are finite, and they are: the slots are a vector, and at any     *)
(* moment finitely many calls have begun, however many there may be.       *)

Awake   == {r \in Requests : req[r].pc = "checkout"}
Started == {r \in Requests : req[r].pc # "idle"}

StrandInv == IsFiniteSet(Started) /\ NoStrandedWaiter

\* A step keeps NoStrandedWaiter when it leaves no slot free or nobody asleep, frees nothing and
\* wakes or starts threads only, takes a slot per thread it takes off the way, or wakes a sleeper
\* for the slot it frees.
LEMMA StrandKept ==
  ASSUME StrandInv, NEW r, Started' \subseteq Started \cup {r},
         \/ Free' = {}
         \/ Sleepers' = {}
         \/ Free' \subseteq Free /\ Awake \subseteq Awake' /\ Sleepers' \subseteq Sleepers
         \/ \E t \in Free : /\ Free' \subseteq Free \ {t}
                            /\ Awake \ {r} \subseteq Awake' /\ Sleepers' \subseteq Sleepers
         \/ \E x, w : /\ Free' \subseteq Free \cup {x}
                      /\ w \in Sleepers /\ Awake \cup {w} \subseteq Awake'
                      /\ Sleepers' \subseteq Sleepers
  PROVE  StrandInv'
<1>1. IsFiniteSet(Started')
  <2>1. IsFiniteSet(Started \cup {r})
    BY FS_AddElement DEF StrandInv
  <2> QED
    BY <2>1, FS_Subset
<1>2. /\ IsFiniteSet(Free) /\ IsFiniteSet(Free')
      /\ IsFiniteSet(Awake) /\ IsFiniteSet(Awake')
  <2>1. Free \subseteq Slots /\ Free' \subseteq Slots /\ Awake \subseteq Started /\ Awake' \subseteq Started'
    BY DEF Free, Awake, Started
  <2>2. IsFiniteSet(Slots) /\ IsFiniteSet(Started)
    BY PoolAssumption DEF StrandInv
  <2> QED
    BY <1>1, <2>1, <2>2, FS_Subset
<1>3. /\ Cardinality(Free) \in Nat /\ Cardinality(Free') \in Nat
      /\ Cardinality(Awake) \in Nat /\ Cardinality(Awake') \in Nat
  BY <1>2, FS_CardinalityType
<1>4. Sleepers # {} => Cardinality(Free) <= Cardinality(Awake)
  BY DEF StrandInv, NoStrandedWaiter, Awake
<1>5. SUFFICES Sleepers' # {} => Cardinality(Free') <= Cardinality(Awake')
  BY <1>1 DEF StrandInv, NoStrandedWaiter, Awake
<1>6. CASE Free' = {}
  <2>1. Cardinality(Free') = 0
    BY <1>6, FS_EmptySet
  <2> QED
    BY <1>3, <2>1
<1>7. CASE Free' \subseteq Free /\ Awake \subseteq Awake' /\ Sleepers' \subseteq Sleepers
  <2>1. Cardinality(Free') <= Cardinality(Free) /\ Cardinality(Awake) <= Cardinality(Awake')
    BY <1>2, <1>7, FS_Subset
  <2> QED
    BY <1>3, <1>4, <1>7, <2>1
<1>8. ASSUME NEW t \in Free, Free' \subseteq Free \ {t}, Awake \ {r} \subseteq Awake',
             Sleepers' \subseteq Sleepers
      PROVE  Sleepers' # {} => Cardinality(Free') <= Cardinality(Awake')
  <2>1. /\ IsFiniteSet(Free \ {t}) /\ Cardinality(Free \ {t}) = Cardinality(Free) - 1
        /\ IsFiniteSet(Awake \ {r}) /\ Cardinality(Awake \ {r}) >= Cardinality(Awake) - 1
    <3>1. IsFiniteSet(Free \ {t}) /\ Cardinality(Free \ {t}) = Cardinality(Free) - 1
      BY <1>2, FS_RemoveElement
    <3>2. /\ IsFiniteSet(Awake \ {r})
          /\ Cardinality(Awake \ {r}) = IF r \in Awake THEN Cardinality(Awake) - 1
                                                       ELSE Cardinality(Awake)
      BY <1>2, FS_RemoveElement
    <3> QED
      BY <1>3, <3>1, <3>2
  <2>2. /\ Cardinality(Free') <= Cardinality(Free \ {t})
        /\ Cardinality(Awake \ {r}) <= Cardinality(Awake')
    BY <1>2, <1>8, <2>1, FS_Subset
  <2>3. Cardinality(Awake \ {r}) \in Nat
    BY <2>1, FS_CardinalityType
  <2> QED
    BY <1>3, <1>4, <1>8, <2>1, <2>2, <2>3
<1>9. ASSUME NEW x, NEW w, Free' \subseteq Free \cup {x}, w \in Sleepers,
             Awake \cup {w} \subseteq Awake', Sleepers' \subseteq Sleepers
      PROVE  Sleepers' # {} => Cardinality(Free') <= Cardinality(Awake')
  <2>1. w \notin Awake
    BY <1>9 DEF Sleepers, Awake
  <2>2. /\ IsFiniteSet(Free \cup {x}) /\ Cardinality(Free \cup {x}) <= Cardinality(Free) + 1
        /\ IsFiniteSet(Awake \cup {w}) /\ Cardinality(Awake \cup {w}) = Cardinality(Awake) + 1
    <3>1. /\ IsFiniteSet(Free \cup {x})
          /\ Cardinality(Free \cup {x}) = IF x \in Free THEN Cardinality(Free)
                                                        ELSE Cardinality(Free) + 1
      BY <1>2, FS_AddElement
    <3>2. IsFiniteSet(Awake \cup {w}) /\ Cardinality(Awake \cup {w}) = Cardinality(Awake) + 1
      BY <1>2, <2>1, FS_AddElement
    <3> QED
      BY <1>3, <3>1, <3>2
  <2>3. /\ Cardinality(Free') <= Cardinality(Free \cup {x})
        /\ Cardinality(Awake \cup {w}) <= Cardinality(Awake')
    BY <1>2, <1>9, <2>2, FS_Subset
  <2>4. Cardinality(Free \cup {x}) \in Nat
    BY <2>2, FS_CardinalityType
  <2> QED
    BY <1>3, <1>4, <1>9, <2>2, <2>3, <2>4
<1> QED
  BY <1>6, <1>7, <1>8, <1>9

\* A notification for the slot it frees wakes everybody or, when somebody sleeps, one thread.
LEMMA FreedWakes ==
  ASSUME NEW pcs, req \in [Requests -> GuardType(pcs)],
         NEW rq \in [Requests -> GuardType(pcs)], NotifyFreed(rq), StrandInv,
         \A q \in Requests : \/ rq[q].pc = req[q].pc
                             \/ /\ req[q].pc \notin {"idle", "checkout", "asleep"}
                                /\ rq[q].pc \notin {"checkout", "asleep"},
         NEW x, Free' \subseteq Free \cup {x}
  PROVE  StrandInv'
<1> DEFINE asleep == {q \in Requests : rq[q].pc = "asleep"}
<1>1. /\ asleep = Sleepers
      /\ \A q \in Requests : /\ rq[q].pc = "checkout" <=> q \in Awake
                             /\ req[q].pc = "idle" => rq[q].pc = "idle"
  BY DEF Sleepers, Awake
<1>2. CASE req' = [q \in Requests |-> IF q \in asleep THEN [rq[q] EXCEPT !.pc = "checkout"]
                                                      ELSE rq[q]]
  <2>1. \A q \in Requests : req'[q].pc = IF q \in asleep THEN "checkout" ELSE rq[q].pc
    BY <1>2 DEF GuardType
  <2>2. Sleepers' = {}
    BY <2>1 DEF Sleepers
  <2>3. Started' \subseteq Started
    BY <1>1, <2>1 DEF Started
  <2> QED
    BY <2>2, <2>3, StrandKept
<1>3. CASE req' = rq /\ asleep = {}
  <2>1. Sleepers' = {}
    BY <1>3 DEF Sleepers
  <2>2. Started' \subseteq Started
    BY <1>1, <1>3 DEF Started
  <2> QED
    BY <2>1, <2>2, StrandKept
<1>4. ASSUME NEW w \in asleep, req' = [rq EXCEPT ![w].pc = "checkout"] PROVE StrandInv'
  <2>1. \A q \in Requests : req'[q].pc = IF q = w THEN "checkout" ELSE rq[q].pc
    BY <1>4 DEF GuardType
  <2>2. w \in Sleepers /\ Awake \cup {w} \subseteq Awake' /\ Sleepers' \subseteq Sleepers
    BY <1>1, <2>1 DEF Sleepers, Awake
  <2>3. Started' \subseteq Started
    BY <1>1, <2>1 DEF Started
  <2> QED
    BY <2>2, <2>3, StrandKept
<1> QED
  BY <1>2, <1>3, <1>4 DEF NotifyFreed

\* A step of r that frees no slot and does not take it off its way, nor put it to sleep.
LEMMA StrandAside ==
  ASSUME StrandInv, NEW r \in Requests, UNCHANGED slots,
         \A q \in Requests \ {r} : req'[q].pc = req[q].pc,
         req'[r].pc = req[r].pc \/ (req[r].pc # "checkout" /\ req'[r].pc # "asleep")
  PROVE  StrandInv'
<1>1. Free' \subseteq Free /\ Awake \subseteq Awake' /\ Sleepers' \subseteq Sleepers
  BY DEF Free, Awake, Sleepers
<1>2. Started' \subseteq Started \cup {r}
  BY DEF Started
<1> QED
  BY <1>1, <1>2, StrandKept

\* Nor does a step that only reserves slots, or does not touch the pool at all.
LEMMA StrandReserve ==
  ASSUME StrandInv, \A s \in Slots : slots'[s].busy = slots[s].busy \/ slots'[s].busy, UNCHANGED req
  PROVE  StrandInv'
<1>1. Free' \subseteq Free /\ Awake \subseteq Awake' /\ Sleepers' \subseteq Sleepers
  BY DEF Free, Awake, Sleepers
<1>2. Started' \subseteq Started \cup {None}
  BY DEF Started
<1> QED
  BY <1>1, <1>2, StrandKept

\* A checkout takes one free slot for the thread that was on its way to it, and maybe a source.
LEMMA StrandTake ==
  ASSUME StrandInv, NEW pcs, req \in [Requests -> GuardType(pcs)], NEW r \in Requests,
         CheckoutText(r) \/ CheckoutImage(r), slots \in [Slots -> SlotType]
  PROVE  StrandInv'
<1>1. \E t \in Free : slots'[t].busy /\ \A s \in Slots : slots'[s].busy = slots[s].busy \/ slots'[s].busy
  <2>1. \A s \in Slots : Reserved(s).busy
    BY DEF Reserved, SlotType
  <2>2. CASE CheckoutText(r)
    <3>1. PICK t \in Free : \E src :
            slots' = [s \in Slots |-> IF s = t \/ s = src THEN Reserved(s) ELSE slots[s]]
      BY <2>2 DEF CheckoutText
    <3>2. t \in Slots
      BY DEF Free
    <3> QED
      BY <2>1, <3>1, <3>2
  <2>3. CASE CheckoutImage(r)
    <3>1. PICK t \in Free : slots' = [slots EXCEPT ![t] = Reserved(t)]
      BY <2>3 DEF CheckoutImage
    <3>2. t \in Slots
      BY DEF Free
    <3> QED
      BY <2>1, <3>1, <3>2
  <2> QED
    BY <2>2, <2>3
<1>2. PICK t \in Free : /\ slots'[t].busy
                        /\ \A s \in Slots : slots'[s].busy = slots[s].busy \/ slots'[s].busy
  BY <1>1
<1>3. Free' \subseteq Free \ {t}
  BY <1>2 DEF Free
<1>4. /\ req'[r].pc \in {"seed", "held"}
      /\ \A q \in Requests \ {r} : req'[q] = req[q]
  <2>1. CASE CheckoutText(r)
    <3>1. PICK x \in Free : \E src \in (Free \ {x}) \cup {None} :
            req' = [req EXCEPT ![r] =
                      [pc |-> IF HasCache \/ src # None THEN "seed" ELSE "held",
                       slot |-> x, kv |-> slots[x].kv, src |-> src,
                       srcKv |-> IF src = None THEN None ELSE slots[src].kv]]
      BY <2>1 DEF CheckoutText
    <3> QED
      BY <3>1
  <2>2. CASE CheckoutImage(r)
    BY <2>2 DEF CheckoutImage
  <2> QED
    BY <2>1, <2>2
<1>5. /\ Awake \ {r} \subseteq Awake' /\ Sleepers' \subseteq Sleepers
      /\ Started' \subseteq Started \cup {r}
  BY <1>4 DEF Awake, Sleepers, Started
<1> QED
  BY <1>3, <1>5, StrandKept

\* A slot that is put back wakes a thread for itself.
LEMMA StrandReturn ==
  ASSUME StrandInv, NEW pcs, req \in [Requests -> GuardType(pcs)],
         slots \in [Slots -> SlotType], NEW r \in Requests, NEW g \in GuardType(pcs),
         \/ g.pc = req[r].pc
         \/ /\ req[r].pc \notin {"idle", "checkout", "asleep"}
            /\ g.pc \notin {"checkout", "asleep"},
         NEW x, NEW y, slots' = [slots EXCEPT ![x] = y], NotifyFreed([req EXCEPT ![r] = g])
  PROVE  StrandInv'
<1> DEFINE rq == [req EXCEPT ![r] = g]
<1>1. rq \in [Requests -> GuardType(pcs)]
  OBVIOUS
<1>2. \A q \in Requests : \/ rq[q].pc = req[q].pc
                          \/ /\ req[q].pc \notin {"idle", "checkout", "asleep"}
                             /\ rq[q].pc \notin {"checkout", "asleep"}
  OBVIOUS
<1>3. NotifyFreed(rq)
  OBVIOUS
<1> HIDE DEF rq
<1>4. Free' \subseteq Free \cup {x}
  BY DEF Free
<1> QED
  BY <1>1, <1>2, <1>3, <1>4, FreedWakes

\* No step of a call inside the pool strands a sleeper next to a free slot.
LEMMA StrandThread ==
  ASSUME StrandInv, NEW pcs, {"held", "done"} \subseteq pcs, req \in [Requests -> GuardType(pcs)],
         slots \in [Slots -> SlotType], NEW r \in Requests,
         \/ CheckoutSleep(r) \/ CheckoutText(r) \/ CheckoutImage(r) \/ Seeded(r) \/ Release(r)
         \/ \E next : "asleep" \notin next /\ RunLegacy(r, next)
  PROVE  StrandInv'
<1>1. CASE CheckoutSleep(r)
  <2>1. Free' = {}
    BY <1>1 DEF CheckoutSleep, Free
  <2>2. Started' \subseteq Started \cup {r}
    BY <1>1 DEF CheckoutSleep, Started
  <2> QED
    BY <2>1, <2>2, StrandKept
<1>2. CASE \E next : "asleep" \notin next /\ RunLegacy(r, next)
  <2>1. \E pc : req' = [req EXCEPT ![r].pc = pc] /\ pc # "asleep"
    BY <1>2 DEF RunLegacy
  <2>2. UNCHANGED slots /\ req[r].pc = "held"
    BY <1>2 DEF RunLegacy
  <2>3. req'[r].pc # "asleep" /\ \A q \in Requests \ {r} : req'[q].pc = req[q].pc
    BY <2>1 DEF GuardType
  <2> QED
    BY <2>2, <2>3, StrandAside
<1>3. CASE Seeded(r)
  <2> DEFINE g == [req[r] EXCEPT !.pc = "held", !.src = None, !.srcKv = None]
  <2>1. [req EXCEPT ![r].pc = "held", ![r].src = None, ![r].srcKv = None] = [req EXCEPT ![r] = g]
    BY DEF GuardType
  <2>2. g \in GuardType(pcs) /\ g.pc = "held"
    BY DEF GuardType, OptKv
  <2> HIDE DEF g
  <2>3. req[r].pc = "seed"
    BY <1>3 DEF Seeded
  <2>4. CASE req[r].src = None
    <3>1. req' = [req EXCEPT ![r] = g] /\ UNCHANGED slots
      BY <1>3, <2>1, <2>4 DEF Seeded
    <3>2. req'[r].pc = "held" /\ \A q \in Requests \ {r} : req'[q].pc = req[q].pc
      BY <2>2, <3>1
    <3> QED
      BY <2>3, <3>1, <3>2, StrandAside
  <2>5. CASE req[r].src # None
    <3>1. /\ NotifyFreed([req EXCEPT ![r] = g])
          /\ \E x, y : slots' = [slots EXCEPT ![x] = y]
      BY <1>3, <2>1, <2>5 DEF Seeded
    <3> QED
      BY <2>2, <2>3, <3>1, StrandReturn
  <2> QED
    BY <2>4, <2>5
<1>4. CASE Release(r)
  <2> DEFINE g == [NoGuard EXCEPT !.pc = "done"]
  <2>1. g \in GuardType(pcs) /\ g.pc = "done"
    BY DEF GuardType, OptKv, NoGuard
  <2>2. /\ req[r].pc = "release" /\ NotifyFreed([req EXCEPT ![r] = g])
        /\ \E x, y : slots' = [slots EXCEPT ![x] = y]
    BY <1>4 DEF Release
  <2> HIDE DEF g
  <2> QED
    BY <2>1, <2>2, StrandReturn
<1> QED
  BY <1>1, <1>2, <1>3, <1>4, StrandTake

\* Nor does the cold worker, which wakes everybody.
LEMMA StrandCold ==
  ASSUME StrandInv, NEW pcs, req \in [Requests -> GuardType(pcs)], slots \in [Slots -> SlotType],
         ColdNext
  PROVE  StrandInv'
<1>1. CASE ColdReserve
  <2>1. PICK s \in Slots :
          slots' = [slots EXCEPT ![s].busy = TRUE, ![s].idle = FALSE, ![s].kv = None]
    BY <1>1 DEF ColdReserve
  <2>2. \A x \in Slots : slots'[x].busy = slots[x].busy \/ slots'[x].busy
    BY <2>1 DEF SlotType
  <2> QED
    BY <1>1, <2>2, StrandReserve DEF ColdReserve
<1>2. CASE ColdSleep
  BY <1>2, StrandReserve DEF ColdSleep
<1>3. CASE ColdReturn
  <2>1. req' = [r \in Requests |-> IF r \in Sleepers THEN [req[r] EXCEPT !.pc = "checkout"]
                                                    ELSE req[r]]
    BY <1>3 DEF ColdReturn
  <2>2. \A r \in Requests : req'[r].pc = IF r \in Sleepers THEN "checkout" ELSE req[r].pc
    BY <2>1 DEF GuardType
  <2>3. Sleepers' = {}
    BY <2>2 DEF Sleepers
  <2>4. Started' \subseteq Started \cup {None}
    BY <2>2 DEF Sleepers, Started
  <2> QED
    BY <2>3, <2>4, StrandKept
<1> QED
  BY <1>1, <1>2, <1>3 DEF ColdNext

\* Nobody sleeps at the start.
LEMMA StrandInit == PoolInit => StrandInv
<1> SUFFICES ASSUME PoolInit PROVE StrandInv
  OBVIOUS
<1>1. Sleepers = {} /\ Started = {}
  BY DEF PoolInit, NoGuard, Sleepers, Started
<1> QED
  BY <1>1, FS_EmptySet DEF StrandInv, NoStrandedWaiter

\* In the engine without a scheduler, every free slot has a thread on its way while others sleep.
THEOREM PoolStrandsNobody == PoolSpec => []NoStrandedWaiter
<1>1. ASSUME PoolTypeOK, StrandInv, [PoolNext]_poolVars PROVE StrandInv'
  <2>1. slots \in [Slots -> SlotType] /\ req \in [Requests -> GuardType(PoolPcs)]
    BY <1>1 DEF PoolTypeOK
  <2>2. ASSUME NEW r \in Requests, Request(r) PROVE StrandInv'
    <3>1. CASE GoCheckout(r, "idle")
      <4>1. /\ UNCHANGED slots /\ req'[r].pc = "checkout" /\ req[r].pc = "idle"
            /\ \A q \in Requests \ {r} : req'[q].pc = req[q].pc
        BY <2>1, <3>1 DEF GoCheckout, GuardType
      <4> QED
        BY <1>1, <4>1, StrandAside
    <3>2. {"held", "done"} \subseteq PoolPcs /\ "asleep" \notin {"release"}
      BY DEF PoolPcs
    <3> QED
      BY <1>1, <2>1, <2>2, <3>1, <3>2, StrandThread DEF Request
  <2>3. CASE UNCHANGED poolVars
    BY <1>1, <2>3, StrandReserve DEF poolVars
  <2> QED
    BY <1>1, <2>1, <2>2, <2>3, StrandCold DEF PoolNext, Idle
<1>2. StrandInv => NoStrandedWaiter
  BY DEF StrandInv
<1> QED
  BY <1>1, <1>2, PoolTypeCorrect, StrandInit, PTL DEF PoolSpec

=============================================================================
