------------------------------ MODULE SlotPool ------------------------------
(***************************************************************************)
(* The N-slot KV pool of ParallelSeam: a Mutex<Pool> and the `freed`       *)
(* condition variable.  A checkout MOVES the KV out of the slot and holds  *)
(* it for the whole generation without the lock; a free slot may also be   *)
(* reserved as the source of a prefix copy, or by the cold-cache worker    *)
(* while it spills an idle conversation to disk.  Every critical section   *)
(* of the pool lock is one action.                                         *)
(*                                                                         *)
(* The KV of slot s is named s, so a value that ends up in a foreign slot, *)
(* twice in the system or nowhere is visible.  Which free slot the prefix  *)
(* score and the LRU stamp select, and whether an idle slot has aged past  *)
(* the deadline, are left open (any choice).                               *)
(*                                                                         *)
(* On its own this is the engine without a scheduler worker: every request *)
(* generates on the KV its own guard holds.                                *)
(***************************************************************************)
EXTENDS Naturals, FiniteSets

CONSTANTS Slots,      \* indices of Pool.slots
          Requests,   \* calls of generate_turn / generate_multimodal_turn
          Keys,       \* image identities (MultimodalKey)
          KeyOf,      \* the image key of each request, NoKey for text
          NoKey,      \* multimodal_key = None
          None        \* the absent slot or KV

ASSUME PoolAssumption ==
  /\ IsFiniteSet(Slots) /\ None \notin Slots
  /\ NoKey \notin Keys
  /\ KeyOf \in [Requests -> Keys \cup {NoKey}]
  /\ "empty" \notin Keys /\ "text" \notin Keys

VARIABLES
  slots,    \* Pool.slots: kv, busy, multimodal_key, idle_since.is_some()
  content,  \* what each KV buffer records: nothing, text tokens, or the state of an image prompt
  req,      \* request threads: program counter, SlotGuard (slot, kv), reserved copy source (src, srcKv)
  cold      \* the cold-cache worker: program counter and the slot it reserved; "off" without it

poolVars == <<slots, content, req, cold>>

\* session_cache.is_some(), settled when the engine is built.
HasCache == cold.pc # "off"

OptKv     == Slots \cup {None}
Contents  == {"empty", "text"} \cup Keys
IsImage(r) == KeyOf[r] # NoKey
\* Mutant: a text prompt is recorded under its (absent) image key.
ContentByKey(r) == KeyOf[r]
ContentOf(r) == IF IsImage(r) THEN KeyOf[r] ELSE "text"

NoGuard == [pc |-> "idle", slot |-> None, kv |-> None, src |-> None, srcKv |-> None]

PoolInit ==
  /\ slots = [s \in Slots |-> [kv |-> s, busy |-> FALSE, key |-> NoKey, idle |-> FALSE]]
  /\ content = [s \in Slots |-> "empty"]
  /\ req = [r \in Requests |-> NoGuard]
  /\ cold \in [pc : {"scan", "off"}, slot : {None}, kv : {None}]

-----------------------------------------------------------------------------
(* Slot and condition-variable helpers. *)

Free     == {s \in Slots : ~slots[s].busy}
Sleepers == {r \in Requests : req[r].pc = "asleep"}

\* slot.busy = true; kv.take(); multimodal_key.take(); idle_since = None
Reserved(s) == [slots[s] EXCEPT !.kv = None, !.busy = TRUE, !.key = NoKey, !.idle = FALSE]
\* slot.kv = Some(kv); busy = false; the idle clock restarts only under the cold cache
Returned(kv, key) == [kv |-> kv, busy |-> FALSE, key |-> key, idle |-> HasCache]

\* Mutant: notify_one also under the cold cache, where the cold worker may take the wakeup.
NotifyOne(rq) ==
  LET asleep == {r \in Requests : rq[r].pc = "asleep"}
  IN \/ /\ asleep # {} /\ UNCHANGED cold
        /\ \E r \in asleep : req' = [rq EXCEPT ![r].pc = "checkout"]
     \/ cold.pc = "asleep" /\ cold' = [cold EXCEPT !.pc = "scan"] /\ req' = rq
     \/ asleep = {} /\ cold.pc # "asleep" /\ req' = rq /\ UNCHANGED cold

\* `freed.notify_all` under the cold cache, whose worker waits on the same condition
\* variable; otherwise `freed.notify_one`.  rq is the request state to wake threads in.
NotifyFreed(rq) ==
  LET asleep == {r \in Requests : rq[r].pc = "asleep"}
  IN /\ IF HasCache
        THEN req' = [r \in Requests |-> IF r \in asleep THEN [rq[r] EXCEPT !.pc = "checkout"]
                                                        ELSE rq[r]]
        ELSE IF asleep = {} THEN req' = rq
        ELSE \E r \in asleep : req' = [rq EXCEPT ![r].pc = "checkout"]
     /\ cold' = IF cold.pc = "asleep" THEN [cold EXCEPT !.pc = "scan"] ELSE cold

-----------------------------------------------------------------------------
(* Request threads. *)

GoCheckout(r, from) ==
  /\ req[r].pc = from
  /\ req' = [req EXCEPT ![r].pc = "checkout"]
  /\ UNCHANGED <<slots, content, cold>>

\* Every slot is busy: `freed.wait(pool)`.
CheckoutSleep(r) ==
  /\ req[r].pc = "checkout"
  /\ Free = {}
  /\ req' = [req EXCEPT ![r].pc = "asleep"]
  /\ UNCHANGED <<slots, content, cold>>

\* checkout_resident / checkout_with_cold_cache, first critical section: reserve the target
\* and, when its KV is to be seeded, a second text slot as the source.  The resident path
\* seeds only a token-only target and skips the unlocked section when there is no source.
CheckoutText(r) ==
  /\ req[r].pc = "checkout" /\ ~IsImage(r)
  /\ \E t \in Free : \E src \in (Free \ {t}) \cup {None} :
       /\ src # None => /\ slots[src].key = NoKey
                        /\ slots[src].kv # None /\ content[slots[src].kv] # "empty"
                        /\ HasCache \/ slots[t].key = NoKey
       /\ slots' = [s \in Slots |-> IF s = t \/ s = src THEN Reserved(s) ELSE slots[s]]
       /\ content' = IF slots[t].key = NoKey THEN content
                    ELSE [content EXCEPT ![slots[t].kv] = "empty"]
       /\ req' = [req EXCEPT ![r] =
                    [pc    |-> IF HasCache \/ src # None THEN "seed" ELSE "held",
                     slot  |-> t, kv |-> slots[t].kv,
                     src   |-> src, srcKv |-> IF src = None THEN None ELSE slots[src].kv]]
       /\ UNCHANGED cold

\* Mutant: a failed seed returns early, past the return of the source.
SeededEarlyReturn(r) ==
  LET g == req[r]
      rq == [req EXCEPT ![r].pc = "held", ![r].src = None, ![r].srcKv = None]
  IN /\ g.pc = "seed"
     /\ \E c \in {"text", "empty"} :
          /\ content' = [content EXCEPT ![g.kv] = c]
          /\ IF g.src = None \/ c = "empty"
             THEN req' = rq /\ UNCHANGED <<slots, cold>>
             ELSE /\ slots' = [slots EXCEPT ![g.src] = Returned(g.srcKv, slots[g.src].key)]
                  /\ NotifyFreed(rq)

\* The unlocked section (spill, restore or prefix copy into the target) and the second
\* critical section, which returns the source and wakes a waiter for it.
Seeded(r) ==
  LET g == req[r]
      rq == [req EXCEPT ![r].pc = "held", ![r].src = None, ![r].srcKv = None]
  IN /\ g.pc = "seed"
     /\ \E c \in {"text", "empty"} : content' = [content EXCEPT ![g.kv] = c]
     /\ IF g.src = None
        THEN req' = rq /\ UNCHANGED <<slots, cold>>
        ELSE /\ slots' = [slots EXCEPT ![g.src] = Returned(g.srcKv, slots[g.src].key)]
             /\ NotifyFreed(rq)

\* checkout_multimodal*: the KV survives only on a slot with the same image key whose
\* tokens the prompt continues; otherwise it is reset (or spilled, then released).
CheckoutImage(r) ==
  /\ req[r].pc = "checkout" /\ IsImage(r)
  /\ \E t \in Free :
       /\ slots' = [slots EXCEPT ![t] = Reserved(t)]
       /\ content' \in {[content EXCEPT ![slots[t].kv] = "empty"]} \cup
                       (IF slots[t].key = KeyOf[r] THEN {content} ELSE {})
       /\ req' = [req EXCEPT ![r] =
                    [pc |-> "held", slot |-> t, kv |-> slots[t].kv, src |-> None, srcKv |-> None]]
       /\ UNCHANGED cold

\* A generation on the guard's own KV (constrained text, image prefill, no scheduler).  An
\* error leaves the KV as it stands or, after numerical corruption or on an image, reset.
RunLegacy(r, next) ==
  /\ req[r].pc = "held"
  /\ \E ok \in BOOLEAN : \E c \in {ContentOf(r), "empty"} :
       /\ ok => c = ContentOf(r)
       /\ ~ok /\ IsImage(r) => c = "empty"
       /\ content' = [content EXCEPT ![req[r].kv] = c]
       /\ \E pc \in IF ok THEN next ELSE {"release"} : req' = [req EXCEPT ![r].pc = pc]
  /\ UNCHANGED <<slots, cold>>

\* Mutant: the guard forgets the image identity of what it prefilled.
ReleaseKeyless(r) ==
  LET g == req[r]
  IN /\ g.pc = "release"
     /\ slots' = [slots EXCEPT ![g.slot] = Returned(g.kv, NoKey)]
     /\ NotifyFreed([req EXCEPT ![r] = [NoGuard EXCEPT !.pc = "done"]])
     /\ UNCHANGED content

\* SlotGuard::drop with the KV attached, on return, error or unwinding.
Release(r) ==
  LET g == req[r]
  IN /\ g.pc = "release"
     /\ slots' = [slots EXCEPT ![g.slot] = Returned(g.kv, KeyOf[r])]
     /\ NotifyFreed([req EXCEPT ![r] = [NoGuard EXCEPT !.pc = "done"]])
     /\ UNCHANGED content

-----------------------------------------------------------------------------
(* cold_session_worker. *)

Spillable(s) == /\ slots[s].idle /\ ~slots[s].busy /\ slots[s].key = NoKey
                /\ slots[s].kv # None /\ content[slots[s].kv] # "empty"

ColdReserve ==
  /\ cold.pc = "scan"
  /\ \E s \in Slots :
       /\ Spillable(s)
       /\ cold' = [pc |-> "spill", slot |-> s, kv |-> slots[s].kv]
       /\ slots' = [slots EXCEPT ![s].busy = TRUE, ![s].idle = FALSE, ![s].kv = None]
  /\ UNCHANGED <<content, req>>

\* Nothing can ever age out: the untimed wait.  (The timed wait is a stutter in "scan".)
ColdSleep ==
  /\ cold.pc = "scan"
  /\ \A s \in Slots : ~Spillable(s)
  /\ cold' = [cold EXCEPT !.pc = "asleep"]
  /\ UNCHANGED <<slots, content, req>>

\* The spill releases the KV or fails and keeps it; the slot is returned either way.
ColdReturn ==
  /\ cold.pc = "spill"
  /\ content' \in {content, [content EXCEPT ![cold.kv] = "empty"]}
  /\ slots' = [slots EXCEPT ![cold.slot].kv = cold.kv, ![cold.slot].busy = FALSE,
                            ![cold.slot].idle = TRUE]
  /\ req' = [r \in Requests |-> IF r \in Sleepers THEN [req[r] EXCEPT !.pc = "checkout"]
                                                  ELSE req[r]]
  /\ cold' = [pc |-> "scan", slot |-> None, kv |-> None]

ColdNext == ColdReserve \/ ColdSleep \/ ColdReturn

-----------------------------------------------------------------------------
(* The engine without a scheduler worker. *)

Request(r) == \/ GoCheckout(r, "idle")
              \/ CheckoutSleep(r) \/ CheckoutText(r) \/ CheckoutImage(r)
              \/ Seeded(r) \/ RunLegacy(r, {"release"}) \/ Release(r)

\* All calls have returned; the cold worker may still be flushing.
Idle == /\ \A r \in Requests : req[r].pc = "done"
        /\ UNCHANGED poolVars

PoolNext == (\E r \in Requests : Request(r)) \/ ColdNext \/ Idle

PoolSpec == PoolInit /\ [][PoolNext]_poolVars

\* Threads are scheduled.  A waiter is also not overtaken for ever: the calls are finitely
\* many, and the cold worker leaves a slot alone for `session_idle` after returning it.
PoolFairness ==
  /\ \A r \in Requests : /\ WF_poolVars(CheckoutSleep(r) \/ Seeded(r) \/ Release(r)
                                          \/ RunLegacy(r, {"release"}))
                         /\ SF_poolVars(CheckoutText(r) \/ CheckoutImage(r))
  /\ WF_poolVars(ColdReturn)

PoolLiveSpec == PoolSpec /\ PoolFairness

-----------------------------------------------------------------------------
(* Properties. *)

PoolPcs == {"idle", "checkout", "asleep", "seed", "held", "release", "done"}

SlotType == [kv : OptKv, busy : BOOLEAN, key : Keys \cup {NoKey}, idle : BOOLEAN]
GuardType(pcs) == [pc : pcs, slot : OptKv, kv : OptKv, src : OptKv, srcKv : OptKv]
ColdType == [pc : {"off", "scan", "asleep", "spill"}, slot : OptKv, kv : OptKv]

\* The pool, the guards and the cold worker have their declared types.
PoolTypeOK ==
  /\ slots \in [Slots -> SlotType]
  /\ content \in [Slots -> Contents]
  /\ req \in [Requests -> GuardType(PoolPcs)]
  /\ cold \in ColdType

\* The holders of the KV of slot s outside the pool.
HoldersOf(s) ==
  {<<"guard", r>> : r \in {q \in Requests : req[q].kv = s}} \cup
  {<<"source", r>> : r \in {q \in Requests : req[q].srcKv = s}} \cup
  (IF cold.kv = s THEN {<<"cold", None>>} ELSE {})

\* A KV is in its own slot of the pool, which is then free, or with exactly one holder, and its
\* slot is then busy: no checkout, prefix copy, spill or return loses, doubles or misplaces
\* one, so no sequence's state can be overwritten by another and no slot is burned.
SoleOwner ==
  \A s \in Slots :
    \/ ~slots[s].busy /\ slots[s].kv = s /\ HoldersOf(s) = {}
    \/ slots[s].busy /\ slots[s].kv = None /\ (\E h \in HoldersOf(s) : HoldersOf(s) = {h})

\* While threads sleep on `freed`, every free slot has an awake thread on its way to it: the
\* notify_one / notify_all choice strands nobody next to a free slot.
NoStrandedWaiter ==
  Sleepers # {} => Cardinality(Free) <= Cardinality({r \in Requests : req[r].pc = "checkout"})

\* Every call that starts gives its slot back and returns.
EveryCallReturns == \A r \in Requests : req[r].pc # "idle" ~> req[r].pc = "done"

\* A free slot says what its KV holds: with no image key nothing but token state, with a key
\* only the state of that image.  The checkouts and the cold worker decide on the key alone.
KeyTruth ==
  \A s \in Free : slots[s].kv # None =>
    IF slots[s].key = NoKey THEN content[slots[s].kv] \in {"empty", "text"}
                            ELSE content[slots[s].kv] \in {"empty", slots[s].key}
=============================================================================
