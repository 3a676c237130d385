------------------------ MODULE UnifiedArena_proofs ------------------------
EXTENDS UnifiedArena, FiniteSetTheorems, WellFoundedInduction, TLAPS

(* Proofs about UnifiedArena: the arena's inductive invariant ArenaInv, from  *)
(* it every safety invariant the runs of UnifiedArena check, and that the     *)
(* arena implements CellLeases.                                               *)

-----------------------------------------------------------------------------
(* Least and greatest elements.                                             *)

\* A nonempty set of naturals has a least element, and Min is it.
LEMMA MinIn ==
  ASSUME NEW S \in SUBSET Nat, S # {}
  PROVE  Min(S) \in S /\ \A y \in S : Min(S) <= y
<1> DEFINE R == {ss \in Nat \X Nat : ss[1] < ss[2]}
<1>1. IsWellFoundedOn(R, Nat)
  <2>1. R = OpToRel(<, Nat)
    BY Zenon DEF OpToRel
  <2> QED
    BY <2>1, NatLessThanWellFounded
<1>2. PICK x \in S : \A y \in S : <<y, x>> \notin R
  <2> HIDE DEF R
  <2> QED
    BY <1>1, WFMin
<1>3. \A y \in S : x <= y
  <2>1. ASSUME NEW y \in S PROVE ~(y < x)
    <3>1. ASSUME y < x PROVE <<y, x>> \in R
      <4>1. <<y, x>> \in Nat \X Nat /\ <<y, x>>[1] < <<y, x>>[2]
        BY <3>1
      <4> QED
        BY <4>1
    <3> QED
      BY <1>2, <3>1
  <2> QED
    BY <2>1
<1>4. \E m \in S : \A y \in S : m =< y
  BY <1>3
<1>5. Min(S) \in S /\ \A y \in S : Min(S) =< y
  BY <1>4, Zenon DEF Min
<1> QED
  BY <1>5

\* A nonempty set of naturals bounded by n has a greatest element: the least
\* of the distances to n.
LEMMA MaxIn ==
  ASSUME NEW n \in Nat, NEW S \in SUBSET (0..n), S # {}
  PROVE  Max(S) \in S /\ \A y \in S : Max(S) >= y
<1> DEFINE T == {n - s : s \in S}
<1>1. T \in SUBSET Nat /\ T # {}
  <2>1. \A s \in S : n - s \in Nat
    OBVIOUS
  <2> QED
    BY <2>1
<1>2. Min(T) \in T /\ \A y \in T : Min(T) <= y
  <2> HIDE DEF T
  <2> QED
    BY <1>1, MinIn
<1>3. PICK x \in S : Min(T) = n - x
  BY <1>2
<1>4. \A y \in S : x >= y
  <2>1. \A y \in S : n - y \in T
    OBVIOUS
  <2>2. \A y \in S : n - x <= n - y
    BY <1>2, <1>3, <2>1
  <2>3. n \in Nat /\ x \in 0..n /\ S \subseteq 0..n
    OBVIOUS
  <2> QED
    BY <2>2, <2>3
<1>5. \E m \in S : \A y \in S : m >= y
  BY <1>4
<1>6. Max(S) \in S /\ \A y \in S : Max(S) >= y
  BY <1>5, Zenon DEF Max
<1> QED
  BY <1>6

-----------------------------------------------------------------------------
(* Ranges.                                                                 *)

\* A range is two coordinates of the arena, the first below the second.
LEMMA CutFields ==
  ASSUME NEW c \in Cuts
  PROVE  c.from \in Nat /\ c.to \in Nat /\ c.from < c.to /\ c.to <= Total
BY ArenaAssumption DEF ArenaAssumption, Cuts

\* Ranges with the same ends are the same.
LEMMA SameEnds ==
  ASSUME NEW c \in Cuts, NEW d \in Cuts, c.from = d.from, c.to = d.to
  PROVE  c = d
BY DEF Cuts

\* The range between two coordinates.
LEMMA CutIsRange ==
  ASSUME NEW x \in Nat, NEW y \in Nat, x < y, y <= Total
  PROVE  Cut(x, y) \in Cuts /\ Cut(x, y).from = x /\ Cut(x, y).to = y
BY ArenaAssumption DEF ArenaAssumption, Cuts, Cut

\* A range overlaps itself, and what lies within two ranges makes them overlap.
LEMMA SharedPart ==
  ASSUME NEW r \in Cuts, NEW v \in Cuts, NEW w \in Cuts, Within(r, v), Within(r, w)
  PROVE  Overlap(v, w)
BY CutFields DEF Within, Overlap

\* What overlaps a part of a range overlaps the range.
LEMMA PartOverlaps ==
  ASSUME NEW r \in Cuts, NEW v \in Cuts, NEW w \in Cuts, Within(r, v), Overlap(r, w)
  PROVE  Overlap(v, w) /\ Overlap(w, v) /\ Overlap(w, r)
BY CutFields DEF Within, Overlap

\* Two shards that overlap are one.
LEMMA ShardsApart ==
  ASSUME NEW s \in Shards, NEW t \in Shards, Overlap(s, t)
  PROVE  s = t
BY ArenaAssumption DEF ArenaAssumption

\* A shard is itself a range of the arena.
LEMMA ShardIsCut == Shards \subseteq Cuts
BY ArenaAssumption DEF ArenaAssumption

-----------------------------------------------------------------------------
(* The planner's gaps.                                                     *)

\* A gap lies in a window, no blocker touches it, and each of its ends is
\* the window's or a blocker's.
LEMMA GapIs ==
  ASSUME NEW W, NEW Q, NEW g \in Gaps(W, Q)
  PROVE  /\ g \in Cuts
         /\ \A b \in Q : ~Overlap(g, b)
         /\ \E w \in W : /\ Within(g, w)
                         /\ (g.from = w.from \/ \E b \in Q : b.to = g.from)
                         /\ (g.to = w.to \/ \E b \in Q : b.from = g.to)
BY DEF Gaps

\* Two gaps of one scan never overlap: each is as long as it can be.
LEMMA GapsApart ==
  ASSUME NEW W \in SUBSET Cuts, NEW Q \in SUBSET Cuts,
         \A v, w \in W : v # w => ~Overlap(v, w),
         NEW g \in Gaps(W, Q), NEW h \in Gaps(W, Q), Overlap(g, h)
  PROVE  g = h
<1>1. PICK v \in W : /\ Within(g, v)
                     /\ (g.from = v.from \/ \E b \in Q : b.to = g.from)
                     /\ (g.to = v.to \/ \E b \in Q : b.from = g.to)
  BY GapIs
<1>2. PICK w \in W : /\ Within(h, w)
                     /\ (h.from = w.from \/ \E b \in Q : b.to = h.from)
                     /\ (h.to = w.to \/ \E b \in Q : b.from = h.to)
  BY GapIs
<1>3. g \in Cuts /\ h \in Cuts /\ v \in Cuts /\ w \in Cuts
  BY GapIs
<1>4. \A b \in Q : ~Overlap(g, b) /\ ~Overlap(h, b)
  BY GapIs
<1>5. v = w
  BY <1>1, <1>2, <1>3, CutFields DEF Within, Overlap
<1>6. ~(g.from < h.from)
  <2> SUFFICES ASSUME g.from < h.from PROVE FALSE
    OBVIOUS
  <2>1. PICK b \in Q : b.to = h.from
    BY <1>1, <1>2, <1>3, <1>5, CutFields DEF Within
  <2>2. Overlap(g, b)
    BY <2>1, <1>3, CutFields DEF Overlap
  <2> QED
    BY <2>2, <1>4
<1>7. ~(h.from < g.from)
  <2> SUFFICES ASSUME h.from < g.from PROVE FALSE
    OBVIOUS
  <2>1. PICK b \in Q : b.to = g.from
    BY <1>1, <1>2, <1>3, <1>5, CutFields DEF Within
  <2>2. Overlap(h, b)
    BY <2>1, <1>3, CutFields DEF Overlap
  <2> QED
    BY <2>2, <1>4
<1>8. ~(g.to < h.to)
  <2> SUFFICES ASSUME g.to < h.to PROVE FALSE
    OBVIOUS
  <2>1. PICK b \in Q : b.from = g.to
    BY <1>1, <1>2, <1>3, <1>5, CutFields DEF Within
  <2>2. Overlap(h, b)
    BY <2>1, <1>3, CutFields DEF Overlap
  <2> QED
    BY <2>2, <1>4
<1>9. ~(h.to < g.to)
  <2> SUFFICES ASSUME h.to < g.to PROVE FALSE
    OBVIOUS
  <2>1. PICK b \in Q : b.from = h.to
    BY <1>1, <1>2, <1>3, <1>5, CutFields DEF Within
  <2>2. Overlap(g, b)
    BY <2>1, <1>3, CutFields DEF Overlap
  <2> QED
    BY <2>2, <1>4
<1> QED
  BY <1>3, <1>6, <1>7, <1>8, <1>9, CutFields, SameEnds

\* Every cell of a window that no blocker covers is in a gap.
LEMMA GapsCover ==
  ASSUME NEW W \in SUBSET Cuts, NEW Q \in SUBSET Cuts, NEW w \in W, NEW c \in CellsOf(w),
         \A b \in Q : c \notin CellsOf(b)
  PROVE  \E g \in Gaps(W, Q) : c \in CellsOf(g)
<1>0. w \in Cuts /\ c \in Nat /\ w.from <= c /\ c < w.to /\ Total \in Nat
  BY CutFields, ArenaAssumption DEF CellsOf, ArenaAssumption
<1>1. \A b \in Q : b \in Cuts /\ (b.to <= c \/ c < b.from)
  <2> TAKE b \in Q
  <2>1. b \in Cuts /\ b.from \in Nat /\ b.to \in Nat /\ c \notin b.from..(b.to - 1)
    BY CutFields DEF CellsOf
  <2> QED
    BY <2>1, <1>0
<1> DEFINE Below == {w.from} \cup {b.to : b \in {q \in Q : q.to <= c}}
           Above == {w.to} \cup {b.from : b \in {q \in Q : c < q.from}}
<1>2. Below \in SUBSET (0..Total) /\ Below # {}
  <2>1. w.from \in 0..Total
    BY <1>0, CutFields
  <2>2. \A b \in Q : b.to \in 0..Total
    BY <1>0, CutFields
  <2> QED
    BY <2>1, <2>2
<1>3. Above \in SUBSET Nat /\ Above # {}
  <2>1. w.to \in Nat
    BY <1>0, CutFields
  <2>2. \A b \in Q : b.from \in Nat
    BY <1>0, CutFields
  <2> QED
    BY <2>1, <2>2
<1> DEFINE lo == Max(Below)
           hi == Min(Above)
<1>4. lo \in Below /\ \A y \in Below : lo >= y
  <2> HIDE DEF Below
  <2> QED
    BY <1>0, <1>2, MaxIn
<1>5. hi \in Above /\ \A y \in Above : hi <= y
  <2> HIDE DEF Above
  <2> QED
    BY <1>3, MinIn
<1>6. /\ lo \in Nat /\ lo <= c /\ lo >= w.from
      /\ (lo = w.from \/ \E b \in Q : b.to = lo)
      /\ \A b \in Q : b.to <= c => b.to <= lo
  <2>1. lo = w.from \/ \E b \in Q : b.to <= c /\ lo = b.to
    BY <1>4
  <2>2. lo >= w.from /\ \A b \in Q : b.to <= c => lo >= b.to
    BY <1>4
  <2> HIDE DEF lo
  <2>3. \A b \in Q : b.to \in Nat
    BY <1>1, CutFields
  <2>4. w.from \in Nat
    BY <1>0, CutFields
  <2> QED
    BY <2>1, <2>2, <2>3, <2>4, <1>0
<1>7. /\ hi \in Nat /\ c < hi /\ hi <= w.to
      /\ (hi = w.to \/ \E b \in Q : b.from = hi)
      /\ \A b \in Q : c < b.from => hi <= b.from
  <2>1. hi = w.to \/ \E b \in Q : c < b.from /\ hi = b.from
    BY <1>5
  <2>2. hi <= w.to /\ \A b \in Q : c < b.from => hi <= b.from
    BY <1>5
  <2> HIDE DEF hi
  <2>3. \A b \in Q : b.from \in Nat
    BY <1>1, CutFields
  <2>4. w.to \in Nat
    BY <1>0, CutFields
  <2> QED
    BY <2>1, <2>2, <2>3, <2>4, <1>0
<1> HIDE DEF lo, hi
<1> DEFINE g == Cut(lo, hi)
<1>8. g \in Cuts /\ g.from = lo /\ g.to = hi
  <2>1. lo < hi /\ hi <= Total
    BY <1>0, <1>6, <1>7, CutFields
  <2> QED
    BY <2>1, <1>6, <1>7, CutIsRange
<1> HIDE DEF g
<1>9. \A b \in Q : ~Overlap(g, b)
  <2> TAKE b \in Q
  <2>1. b.from \in Nat /\ b.to \in Nat
    BY <1>1, CutFields
  <2>2. CASE b.to <= c
    BY <2>1, <2>2, <1>6, <1>8 DEF Overlap
  <2>3. CASE c < b.from
    BY <2>1, <2>3, <1>7, <1>8 DEF Overlap
  <2> QED
    BY <1>1, <2>2, <2>3
<1>10. Within(g, w)
  BY <1>6, <1>7, <1>8 DEF Within
<1>11. g \in Gaps(W, Q)
  BY <1>6, <1>7, <1>8, <1>9, <1>10 DEF Gaps
<1>12. c \in CellsOf(g)
  BY <1>0, <1>6, <1>7, <1>8 DEF CellsOf
<1> QED
  BY <1>11, <1>12
-----------------------------------------------------------------------------
(* Tilings: free ranges F and lent ranges R that together fill the shards. *)

Apart(P) == \A p, q \in P : p # q => ~Overlap(p, q)
Covers(P) == \A c \in 0..(Total - 1) : \E p \in P : c \in CellsOf(p)
Sharded(P) == \A p \in P : \E s \in Shards : Within(p, s)
\* Free neighbours are merged, unless a shard ends between them.
Coalesced(F) == \A f, g \in F : f.to = g.from => \E s \in Shards : s.to = f.to

Tiling(F, R) ==
    /\ F \subseteq Cuts /\ R \subseteq Cuts /\ F \cap R = {}
    /\ Apart(F \cup R) /\ Covers(F \cup R) /\ Sharded(F \cup R) /\ Coalesced(F)

\* Two ranges that meet but lie in no common shard meet where a shard ends.
LEMMA MeetAtShardEnd ==
  ASSUME NEW f \in Cuts, NEW g \in Cuts, NEW s \in Shards, NEW t \in Shards,
         Within(f, s), Within(g, t), f.to = g.from, s # t
  PROVE  s.to = f.to
<1>1. ~Overlap(s, t)
  BY ShardsApart
<1>2. s \in Cuts /\ t \in Cuts
  BY ShardIsCut
<1> QED
  BY <1>1, <1>2, CutFields DEF Within, Overlap

\* A range within two shards makes them one.
LEMMA OneShard ==
  ASSUME NEW r \in Cuts, NEW s \in Shards, NEW t \in Shards, Within(r, s), Within(r, t)
  PROVE  s = t
BY ShardIsCut, SharedPart, ShardsApart

\* Drop for UnifiedAllocation keeps the tiling: a returned range merges with
\* the at most two free ranges that meet it in its shard.
LEMMA InsertTiles ==
  ASSUME NEW F, NEW R, NEW r \in R, Tiling(F, R)
  PROVE  Tiling(Insert(F, r), R \ {r})
<1>0. /\ F \subseteq Cuts /\ R \subseteq Cuts /\ F \cap R = {} /\ r \in Cuts
      /\ Apart(F \cup R) /\ Covers(F \cup R) /\ Sharded(F \cup R) /\ Coalesced(F)
      /\ Total \in Nat
  BY ArenaAssumption DEF Tiling, ArenaAssumption
<1> DEFINE Same(f) == \E s \in Shards : Within(f, s) /\ Within(r, s)
           Joins == {f \in F : Same(f) /\ (f.to = r.from \/ r.to = f.from)}
           All == Joins \cup {r}
           lo == Min({f.from : f \in All})
           hi == Max({f.to : f \in All})
           m == Cut(lo, hi)
<1>1. Insert(F, r) = (F \ Joins) \cup {m}
  BY DEF Insert
<1>2. /\ Joins \subseteq F /\ r \notin F
      /\ \A f \in F : f \in Joins <=> (Same(f) /\ (f.to = r.from \/ r.to = f.from))
  BY <1>0
<1>3. \A f \in All : f \in Cuts /\ f.from \in Nat /\ f.to \in 0..Total /\ f.from < f.to
  <2> TAKE f \in All
  <2>1. f \in Cuts
    BY <1>0
  <2> QED
    BY <2>1, <1>0, CutFields
<1>4. \E x \in All : lo = x.from /\ \A y \in All : x.from <= y.from
  <2> DEFINE S == {f.from : f \in All}
  <2>1. S \in SUBSET Nat /\ S # {}
    BY <1>3
  <2>2. Min(S) \in S /\ \A y \in S : Min(S) <= y
    <3> HIDE DEF S
    <3> QED
      BY <2>1, MinIn
  <2> QED
    BY <2>2
<1>5. \E y \in All : hi = y.to /\ \A x \in All : x.to <= y.to
  <2> DEFINE S == {f.to : f \in All}
  <2>1. S \in SUBSET (0..Total) /\ S # {}
    BY <1>3
  <2>2. Max(S) \in S /\ \A y \in S : Max(S) >= y
    <3> HIDE DEF S
    <3> QED
      BY <2>1, <1>0, MaxIn
  <2>3. PICK y \in All : hi = y.to
    BY <2>2
  <2>4. \A x \in All : hi >= x.to
    BY <2>2
  <2>5. \A x \in All : x.to <= y.to
    <3> HIDE DEF hi
    <3> QED
      BY <2>3, <2>4, <1>3
  <2> QED
    BY <2>3, <2>5
<1> HIDE DEF lo, hi
<1>6. PICK x \in All : lo = x.from /\ \A y \in All : x.from <= y.from
  BY <1>4
<1>7. PICK y \in All : hi = y.to /\ \A z \in All : z.to <= y.to
  BY <1>5
<1>8. r \in All /\ r \in Cuts
  BY <1>0
<1>9. x = r \/ (x \in F /\ x \in Joins /\ x.to = r.from)
  <2> SUFFICES ASSUME x # r PROVE x \in F /\ x \in Joins /\ x.to = r.from
    OBVIOUS
  <2>1. x \in Joins /\ x \in F /\ (x.to = r.from \/ r.to = x.from)
    BY <1>2
  <2>2. x.from <= r.from
    BY <1>6, <1>8
  <2> QED
    BY <2>1, <2>2, <1>3, <1>8
<1>10. y = r \/ (y \in F /\ y \in Joins /\ y.from = r.to)
  <2> SUFFICES ASSUME y # r PROVE y \in F /\ y \in Joins /\ y.from = r.to
    OBVIOUS
  <2>1. y \in Joins /\ y \in F /\ (y.to = r.from \/ r.to = y.from)
    BY <1>2
  <2>2. r.to <= y.to
    BY <1>7, <1>8
  <2> QED
    BY <2>1, <2>2, <1>3, <1>8
<1>11. /\ m \in Cuts /\ m.from = x.from /\ m.to = y.to
       /\ x.from <= r.from /\ r.to <= y.to
  <2>1. x.from <= r.from /\ r.to <= y.to
    BY <1>6, <1>7, <1>8
  <2>2. x.from \in Nat /\ y.to \in Nat /\ x.from < y.to /\ y.to <= Total
    BY <2>1, <1>3, <1>8
  <2>3. lo \in Nat /\ hi \in Nat /\ lo < hi /\ hi <= Total
    BY <2>2, <1>6, <1>7
  <2> QED
    BY <2>1, <2>3, <1>6, <1>7, CutIsRange
<1> HIDE DEF m
<1>12. PICK s \in Shards : Within(r, s)
  BY <1>0 DEF Sharded
<1>13. \A f \in Joins : Within(f, s)
  <2> TAKE f \in Joins
  <2>1. PICK t \in Shards : Within(f, t) /\ Within(r, t)
    BY <1>2
  <2> QED
    BY <2>1, <1>12, <1>8, OneShard
<1>14. Within(m, s)
  <2>1. Within(x, s) /\ Within(y, s)
    BY <1>9, <1>10, <1>12, <1>13
  <2> QED
    BY <2>1, <1>11 DEF Within
\* Whatever overlaps the merged range overlaps one of its parts.
<1>15. ASSUME NEW p \in Cuts, Overlap(m, p)
       PROVE  Overlap(x, p) \/ Overlap(r, p) \/ Overlap(y, p)
  <2>0. /\ p.from \in Nat /\ p.to \in Nat /\ p.from < p.to
        /\ x.from \in Nat /\ x.to \in Nat /\ x.from < x.to
        /\ y.from \in Nat /\ y.to \in Nat /\ y.from < y.to
        /\ r.from \in Nat /\ r.to \in Nat /\ r.from < r.to
    BY <1>3, <1>8, CutFields
  <2>1. x.from < p.to /\ p.from < y.to
    BY <1>15, <1>11 DEF Overlap
  <2>2. x.to = r.from \/ x.from = r.from
    BY <1>9
  <2>3. y.from = r.to \/ y.to = r.to
    BY <1>10
  <2> QED
    BY <2>0, <2>1, <2>2, <2>3 DEF Overlap
<1>16. \A p \in (F \ Joins) \cup (R \ {r}) : p \in Cuts /\ ~Overlap(m, p) /\ ~Overlap(p, m) /\ p # m
  <2> TAKE p \in (F \ Joins) \cup (R \ {r})
  <2>1. p \in Cuts /\ p \in F \cup R /\ p \notin Joins /\ p # r
    BY <1>0, <1>2
  <2>2. ~Overlap(r, p)
    BY <2>1, <1>0 DEF Apart
  <2>3. ~Overlap(x, p)
    BY <2>1, <2>2, <1>0, <1>9 DEF Apart
  <2>4. ~Overlap(y, p)
    BY <2>1, <2>2, <1>0, <1>10 DEF Apart
  <2>5. ~Overlap(m, p)
    BY <2>1, <2>2, <2>3, <2>4, <1>15
  <2>6. ~Overlap(p, m)
    BY <2>5 DEF Overlap
  <2>7. Overlap(m, m)
    BY <1>11, CutFields DEF Overlap
  <2> QED
    BY <2>1, <2>5, <2>6, <2>7
<1> DEFINE G == (F \ Joins) \cup {m}
           Q == R \ {r}
<1>21. G \subseteq Cuts /\ Q \subseteq Cuts /\ G \cap Q = {}
  BY <1>0, <1>2, <1>11, <1>16
<1>22. Apart(G \cup Q)
  <2> SUFFICES ASSUME NEW p \in G \cup Q, NEW q \in G \cup Q, p # q PROVE ~Overlap(p, q)
    BY DEF Apart
  <2>1. CASE p = m \/ q = m
    BY <2>1, <1>16
  <2>2. CASE p # m /\ q # m
    BY <2>2, <1>0 DEF Apart
  <2> QED
    BY <2>1, <2>2
<1>23. Covers(G \cup Q)
  <2> SUFFICES ASSUME NEW c \in 0..(Total - 1) PROVE \E p \in G \cup Q : c \in CellsOf(p)
    BY DEF Covers
  <2>1. PICK p \in F \cup R : c \in CellsOf(p)
    BY <1>0 DEF Covers
  <2>2. CASE p \in All
    <3>1. m.from <= p.from /\ p.to <= m.to
      BY <2>2, <1>6, <1>7, <1>11
    <3>2. p.from \in Nat /\ p.to \in Nat /\ m.from \in Nat /\ m.to \in Nat
      BY <2>2, <1>3, <1>11, CutFields
    <3>3. c \in Nat /\ p.from <= c /\ c < p.to
      BY <2>1, <3>2 DEF CellsOf
    <3>4. c \in CellsOf(m)
      BY <3>1, <3>2, <3>3 DEF CellsOf
    <3> QED
      BY <3>4
  <2>3. CASE p \notin All
    BY <2>1, <2>3
  <2> QED
    BY <2>2, <2>3
<1>24. Sharded(G \cup Q)
  <2> SUFFICES ASSUME NEW p \in G \cup Q PROVE \E t \in Shards : Within(p, t)
    BY DEF Sharded
  <2>1. CASE p = m
    BY <2>1, <1>14
  <2>2. CASE p # m
    BY <2>2, <1>0 DEF Sharded
  <2> QED
    BY <2>1, <2>2
<1>25. Coalesced(G)
  <2> SUFFICES ASSUME NEW f \in G, NEW g \in G, f.to = g.from
               PROVE  \E t \in Shards : t.to = f.to
    BY DEF Coalesced
  <2>1. CASE f \in F \ Joins /\ g \in F \ Joins
    BY <2>1, <1>0 DEF Coalesced
  <2>2. CASE f = m /\ g \in F \ Joins
    <3>1. CASE y # r
      <4>1. y \in F /\ y.to = g.from
        BY <3>1, <2>2, <1>10, <1>11
      <4> QED
        BY <4>1, <2>2, <1>0, <1>11 DEF Coalesced
    <3>2. CASE y = r
      <4>1. r.to = g.from /\ g \in Cuts
        BY <3>2, <2>2, <1>0, <1>11
      <4>2. ~Same(g)
        BY <4>1, <2>2, <1>2
      <4>3. PICK t \in Shards : Within(g, t)
        BY <2>2, <1>0 DEF Sharded
      <4>4. s # t
        BY <4>2, <4>3, <1>12
      <4>5. s.to = r.to
        BY <4>1, <4>3, <4>4, <1>12, <1>8, MeetAtShardEnd
      <4> QED
        BY <4>5, <3>2, <2>2, <1>11
    <3> QED
      BY <3>1, <3>2
  <2>3. CASE g = m /\ f \in F \ Joins
    <3>1. CASE x # r
      <4>1. x \in F /\ f.to = x.from
        BY <3>1, <2>3, <1>9, <1>11
      <4> QED
        BY <4>1, <2>3, <1>0 DEF Coalesced
    <3>2. CASE x = r
      <4>1. f.to = r.from /\ f \in Cuts
        BY <3>2, <2>3, <1>0, <1>11
      <4>2. ~Same(f)
        BY <4>1, <2>3, <1>2
      <4>3. PICK t \in Shards : Within(f, t)
        BY <2>3, <1>0 DEF Sharded
      <4>4. t # s
        BY <4>2, <4>3, <1>12
      <4>5. t.to = f.to
        BY <4>1, <4>3, <4>4, <1>12, <1>8, MeetAtShardEnd
      <4> QED
        BY <4>5
    <3> QED
      BY <3>1, <3>2
  <2>4. CASE f = m /\ g = m
    BY <2>4, <1>11, CutFields
  <2> QED
    BY <2>1, <2>2, <2>3, <2>4
<1> HIDE DEF G, Q
<1>30. Tiling(G, Q)
  BY <1>21, <1>22, <1>23, <1>24, <1>25 DEF Tiling
<1> QED
  BY <1>1, <1>30 DEF G, Q

\* A batch of ranges, each within a free one and clear of each other, is
\* taken from the free ranges and the rest is still a tiling.
LEMMA TakeTiles ==
  ASSUME NEW F, NEW R, NEW Q \in SUBSET Cuts, Tiling(F, R),
         \A r \in Q : \E f \in F : Within(r, f),
         Apart(Q)
  PROVE  Tiling(Gaps(F, Q), R \cup Q) /\ Q \cap R = {}
<1>0. /\ F \subseteq Cuts /\ R \subseteq Cuts /\ F \cap R = {}
      /\ Apart(F \cup R) /\ Covers(F \cup R) /\ Sharded(F \cup R) /\ Coalesced(F)
      /\ Total \in Nat
  BY ArenaAssumption DEF Tiling, ArenaAssumption
<1> DEFINE G == Gaps(F, Q)
<1>1. \A g \in G : /\ g \in Cuts
                   /\ \A b \in Q : ~Overlap(g, b) /\ ~Overlap(b, g)
                   /\ \E w \in F : /\ Within(g, w)
                                   /\ (g.from = w.from \/ \E b \in Q : b.to = g.from)
                                   /\ (g.to = w.to \/ \E b \in Q : b.from = g.to)
  BY GapIs DEF Overlap
<1>2. \A f, g \in F : f # g => ~Overlap(f, g)
  BY <1>0 DEF Apart
<1>3. \A g, h \in G : g # h => ~Overlap(g, h)
  BY <1>0, <1>2, GapsApart
<1>4. \A g \in G, r \in R : ~Overlap(g, r) /\ ~Overlap(r, g)
  <2> TAKE g \in G, r \in R
  <2>1. PICK w \in F : Within(g, w)
    BY <1>1
  <2>2. ~Overlap(w, r) /\ w \in Cuts /\ r \in Cuts /\ g \in Cuts
    BY <2>1, <1>0, <1>1 DEF Apart
  <2> QED
    BY <2>1, <2>2, PartOverlaps DEF Overlap
<1>5. \A q \in Q, r \in R : ~Overlap(q, r) /\ ~Overlap(r, q)
  <2> TAKE q \in Q, r \in R
  <2>1. PICK w \in F : Within(q, w)
    OBVIOUS
  <2>2. ~Overlap(w, r) /\ w \in Cuts /\ r \in Cuts /\ q \in Cuts
    BY <2>1, <1>0 DEF Apart
  <2> QED
    BY <2>1, <2>2, PartOverlaps DEF Overlap
<1>6. \A c \in Cuts : Overlap(c, c)
  BY CutFields DEF Overlap
<1>7. Q \cap R = {} /\ G \cap R = {} /\ G \cap Q = {}
  BY <1>0, <1>1, <1>4, <1>5, <1>6
<1>8. G \subseteq Cuts /\ R \cup Q \subseteq Cuts
  BY <1>0, <1>1
<1> HIDE DEF G
<1>9. Apart(G \cup (R \cup Q))
  <2> SUFFICES ASSUME NEW p \in G \cup (R \cup Q), NEW q \in G \cup (R \cup Q), p # q
               PROVE  ~Overlap(p, q)
    BY DEF Apart
  <2>1. CASE p \in G
    BY <2>1, <1>1, <1>3, <1>4
  <2>2. CASE p \in R
    BY <2>2, <1>0, <1>4, <1>5 DEF Apart
  <2>3. CASE p \in Q
    BY <2>3, <1>1, <1>5 DEF Apart
  <2> QED
    BY <2>1, <2>2, <2>3
<1>10. Covers(G \cup (R \cup Q))
  <2> SUFFICES ASSUME NEW c \in 0..(Total - 1)
               PROVE  \E p \in G \cup (R \cup Q) : c \in CellsOf(p)
    BY DEF Covers
  <2>1. PICK p \in F \cup R : c \in CellsOf(p)
    BY <1>0 DEF Covers
  <2>2. CASE p \in R \/ \E b \in Q : c \in CellsOf(b)
    BY <2>1, <2>2
  <2>3. CASE p \in F /\ \A b \in Q : c \notin CellsOf(b)
    <3>1. \E g \in Gaps(F, Q) : c \in CellsOf(g)
      BY <2>1, <2>3, <1>0, GapsCover
    <3> QED
      BY <3>1 DEF G
  <2> QED
    BY <2>2, <2>3
<1>11. Sharded(G \cup (R \cup Q))
  <2> SUFFICES ASSUME NEW p \in G \cup (R \cup Q) PROVE \E s \in Shards : Within(p, s)
    BY DEF Sharded
  <2>1. CASE p \in R
    BY <2>1, <1>0 DEF Sharded
  <2>2. CASE p \in G \cup Q
    <3>1. p \in Cuts /\ \E w \in F : Within(p, w)
      BY <2>2, <1>1
    <3>2. PICK w \in F : Within(p, w)
      BY <3>1
    <3>3. PICK s \in Shards : Within(w, s)
      BY <3>2, <1>0 DEF Sharded
    <3>4. w \in Cuts /\ s \in Cuts
      BY <3>2, <3>3, <1>0, ShardIsCut
    <3>5. Within(p, s)
      BY <3>1, <3>2, <3>3, <3>4, CutFields DEF Within
    <3> QED
      BY <3>5
  <2> QED
    BY <2>1, <2>2
<1>12. Coalesced(G)
  <2> SUFFICES ASSUME NEW g \in G, NEW h \in G, g.to = h.from
               PROVE  \E s \in Shards : s.to = g.to
    BY DEF Coalesced
  <2>1. PICK v \in F : Within(g, v) /\ (g.to = v.to \/ \E b \in Q : b.from = g.to)
    BY <1>1
  <2>2. PICK w \in F : Within(h, w) /\ (h.from = w.from \/ \E b \in Q : b.to = h.from)
    BY <1>1
  <2>3. CASE g.to = v.to /\ h.from = w.from
    BY <2>3, <1>0 DEF Coalesced
  <2>4. ~\E b \in Q : b.from = g.to
    <3> SUFFICES ASSUME NEW b \in Q, b.from = g.to PROVE FALSE
      OBVIOUS
    <3>1. Overlap(h, b)
      BY <1>8, CutFields DEF Overlap
    <3> QED
      BY <3>1, <1>1
  <2>5. ~\E b \in Q : b.to = h.from
    <3> SUFFICES ASSUME NEW b \in Q, b.to = h.from PROVE FALSE
      OBVIOUS
    <3>1. Overlap(g, b)
      BY <1>8, CutFields DEF Overlap
    <3> QED
      BY <3>1, <1>1
  <2> QED
    BY <2>1, <2>2, <2>3, <2>4, <2>5
<1>13. Tiling(G, R \cup Q)
  BY <1>7, <1>8, <1>9, <1>10, <1>11, <1>12 DEF Tiling
<1> QED
  BY <1>7, <1>13 DEF G

\* A range of a shard that nobody holds a cell of lies within one free range.
LEMMA ClearIsFree ==
  ASSUME NEW F, NEW R, Tiling(F, R), NEW r \in Cuts, NEW s \in Shards, Within(r, s),
         \A p \in R : ~Overlap(p, r)
  PROVE  \E f \in F : Within(r, f)
<1>0. /\ F \subseteq Cuts /\ R \subseteq Cuts /\ F \cap R = {}
      /\ Apart(F \cup R) /\ Covers(F \cup R) /\ Sharded(F \cup R) /\ Coalesced(F)
      /\ Total \in Nat /\ s \in Cuts
  BY ArenaAssumption, ShardIsCut DEF Tiling, ArenaAssumption
<1>1. /\ r.from \in Nat /\ r.to \in Nat /\ r.from < r.to /\ r.to <= Total
      /\ s.from \in Nat /\ s.to \in Nat /\ s.from <= r.from /\ r.to <= s.to
  BY <1>0, CutFields DEF Within
<1>2. ASSUME NEW c \in Nat, r.from <= c, c < r.to
      PROVE  \E p \in F : p.from \in Nat /\ p.to \in Nat /\ p.from <= c /\ c < p.to
  <2>1. c \in 0..(Total - 1)
    BY <1>0, <1>1, <1>2
  <2>2. PICK p \in F \cup R : c \in CellsOf(p)
    BY <2>1, <1>0 DEF Covers
  <2>3. p \in Cuts /\ p.from \in Nat /\ p.to \in Nat
    BY <1>0, CutFields
  <2>4. p.from <= c /\ c < p.to
    BY <2>2, <2>3, <1>2 DEF CellsOf
  <2>5. Overlap(p, r)
    BY <2>3, <2>4, <1>1, <1>2 DEF Overlap
  <2> QED
    BY <2>2, <2>3, <2>4, <2>5
<1>3. PICK f \in F : f.from \in Nat /\ f.to \in Nat /\ f.from <= r.from /\ r.from < f.to
  BY <1>1, <1>2
<1>4. ~(f.to < r.to)
  <2> SUFFICES ASSUME f.to < r.to PROVE FALSE
    OBVIOUS
  <2>1. PICK g \in F : g.from \in Nat /\ g.to \in Nat /\ g.from <= f.to /\ f.to < g.to
    BY <1>1, <1>2, <1>3
  <2>2. g # f
    BY <2>1, <1>3
  <2>3. ~Overlap(f, g)
    BY <2>2, <1>0 DEF Apart
  <2>4. g.from = f.to
    BY <2>1, <2>3, <1>3, <1>1 DEF Overlap
  <2>5. PICK t \in Shards : t.to = f.to
    BY <2>4, <1>0 DEF Coalesced
  <2>6. t \in Cuts /\ t.from \in Nat /\ t.to \in Nat /\ t.from < t.to
    BY ShardIsCut, CutFields
  <2>7. Overlap(s, t)
    BY <2>5, <2>6, <1>1, <1>3 DEF Overlap
  <2>8. s = t
    BY <2>7, ShardsApart
  <2> QED
    BY <2>5, <2>8, <1>1
<1>5. Within(r, f)
  BY <1>1, <1>3, <1>4 DEF Within
<1> QED
  BY <1>5
-----------------------------------------------------------------------------
(* The inductive invariant.                                                *)

Classes == {"Expert", "KvCache", "LlmRuntime", "Prefill"}
Allocations == [r : Cuts, class : Classes, owner : Directory \cup Sessions \cup {Nobody},
                lease : SUBSET Cuts, held : BOOLEAN]
Ranges(L) == {a.r : a \in L}

\* An allocation is part of its lease, and its class says who may own it.
Proper(a) ==
    /\ a.r \in a.lease
    /\ \/ a.class = "Expert" /\ a.owner \in Directory /\ a.r = Slots[a.owner].r
       \/ a.class = "KvCache" /\ a.owner \in Sessions
       \/ a.class \in {"LlmRuntime", "Prefill"} /\ a.owner = Nobody

LiveOk ==
    /\ live \subseteq Allocations /\ \A a \in live : Proper(a)
    /\ \A a, b \in live : a.r = b.r => a = b

Tile == Tiling(free, Ranges(live))

Layouts == [1..MaxSegs -> Cuts]
Caches == [at : {<<>>} \cup Layouts, depth : 0..MaxSegs, closing : BOOLEAN]

\* The frozen coordinates of all sessions lie below the floor, each in one
\* shard, and clear of each other.
KvOk ==
    /\ kv \in [Sessions -> Caches]
    /\ \A k \in Sessions : kv[k].at = <<>> => kv[k].depth = 0
    /\ \A k \in Sessions : kv[k].at # <<>> => \A i \in 1..MaxSegs :
          /\ kv[k].at[i].to <= FloorFrom /\ \E s \in Shards : Within(kv[k].at[i], s)
          /\ \A l \in Sessions : kv[l].at # <<>> => \A j \in 1..MaxSegs :
                k # l \/ i # j => ~Overlap(kv[k].at[i], kv[l].at[j])

Goals == [class : {"none", "KvCache", "Trim", "LlmRuntime", "Prefill"},
          owner : Sessions \cup {Nobody}, size : Nat]
Plans == [ranges : SUBSET Cuts, victims : SUBSET Directory]

\* What the holder of the gate wants, and how far it is.
CtlOk ==
    /\ changed \in BOOLEAN /\ mode \in {"decode", "prefill"}
    /\ gate \in {"open", "restore", "plan", "retire", "trim"}
    /\ cursor \in 1..(Cardinality(Directory) + 1) /\ (gate # "restore" => cursor = 1)
    /\ goal \in Goals /\ plan \in Plans
    /\ goal.class \in {"KvCache", "Trim"} <=> goal.owner \in Sessions
    /\ gate = "trim" <=> goal.class = "Trim"
    /\ goal.class = "none" <=> goal = NoGoal
    /\ gate = "open" => goal = NoGoal
    /\ gate \in {"plan", "retire"} => goal # NoGoal
    /\ goal.class \in {"KvCache", "Prefill"} => mode = "decode"
    /\ goal.class = "LlmRuntime" => goal.size \in Nat \ {0}
    /\ goal.class = "KvCache" => /\ ~kv[goal.owner].closing
                                 /\ goal.size \in (kv[goal.owner].depth + 1)..MaxSegs
    /\ goal.class = "Trim" => ~kv[goal.owner].closing /\ goal.size = kv[goal.owner].depth

FloorSlots == {i \in Directory : Within(Slots[i].r, Cut(FloorFrom, FloorTo))}

\* The plan that is being committed: clear ranges that nobody but a victim
\* holds, at the coordinates its goal is entitled to, off the floor unless
\* it is for Prefill.
PlanOk ==
    gate = "retire" =>
        /\ Apart(plan.ranges) /\ Sharded(plan.ranges)
        /\ \A r \in plan.ranges, a \in live : Overlap(a.r, r) =>
              a.class = "Expert" /\ (a.owner \in plan.victims \/ ~a.held)
        /\ goal.class = "KvCache" =>
              /\ kv[goal.owner].at # <<>>
              /\ plan.ranges = {kv[goal.owner].at[i] : i \in (kv[goal.owner].depth + 1)..goal.size}
        /\ goal.class = "LlmRuntime" => \A r \in plan.ranges : FloorTo <= r.from
        /\ goal.class # "Prefill" => plan.victims \cap FloorSlots = {}

\* A session's live segments are at its coordinates; those it holds are the
\* committed ones, all of them until it closes, and while it is trimmed some
\* behind them.
SessionLive(k) ==
    /\ \A a \in live : a.class = "KvCache" /\ a.owner = k =>
          /\ kv[k].at # <<>>
          /\ \E j \in 1..MaxSegs : /\ a.r = kv[k].at[j]
                                   /\ a.held => j <= kv[k].depth \/ Trimming(k)
    /\ ~kv[k].closing => \A j \in 1..kv[k].depth : \E a \in live :
          a.class = "KvCache" /\ a.owner = k /\ a.r = kv[k].at[j] /\ a.held

KvLive == \A k \in Sessions : SessionLive(k)

\* A lease has one owner, and a session that is neither closed nor trimmed
\* waits for no range of its own, except behind a sibling it still holds.
OneOwner == \A a, b \in live : a.lease = b.lease => a.owner = b.owner
OwnBack == \A k \in Sessions : ~kv[k].closing /\ ~Trimming(k) => Returned(k)

\* Runtime buffers stay above the floor.
WorkLive == \A a \in live : a.class = "LlmRuntime" => FloorTo <= a.r.from

\* Decode holds no Prefill ring; once a restore has looked at a slot, the
\* dropped ring is back.
RingGone ==
    mode = "decode" => \A a \in live : a.class = "Prefill" =>
        ~a.held /\ gate = "restore" /\ cursor = 1

\* During Decode the slots of the floor hold their experts, those a restore
\* has looked at so far, unless a Prefill is about to take them.
Filled(i) == \E a \in live : a.class = "Expert" /\ a.owner = i /\ a.held
FloorIn ==
    mode = "decode" /\ ~(gate = "retire" /\ goal.class = "Prefill") =>
        \A i \in FloorSlots : (gate = "restore" => i < cursor) => Filled(i)

ArenaInv ==
    /\ LiveOk /\ Tile /\ KvOk /\ CtlOk /\ PlanOk /\ KvLive /\ WorkLive /\ RingGone /\ FloorIn
    /\ OneOwner /\ OwnBack
-----------------------------------------------------------------------------
(* What a step does to the allocations.                                    *)

\* Dropping the handles of some allocations leaves every record in place:
\* only its held flag goes down.
LEMMA ReleasedIs ==
  ASSUME NEW A, live \subseteq Allocations
  PROVE  /\ \A b \in Released(A) : \E a \in live :
              /\ b.r = a.r /\ b.class = a.class /\ b.owner = a.owner /\ b.lease = a.lease
              /\ b.held = (a.held /\ a \notin A) /\ b \in Allocations /\ (a \notin A => b = a)
         /\ \A a \in live : \E b \in Released(A) :
              /\ b.r = a.r /\ b.class = a.class /\ b.owner = a.owner /\ b.lease = a.lease
              /\ b.held = (a.held /\ a \notin A)
         /\ Ranges(Released(A)) = Ranges(live)
<1> DEFINE Image(a) == IF a \in A THEN [a EXCEPT !.held = FALSE] ELSE a
<1>1. Released(A) = {Image(a) : a \in live}
  BY DEF Released
<1>2. ASSUME NEW a \in live
      PROVE  /\ Image(a) \in Allocations
             /\ Image(a).r = a.r /\ Image(a).class = a.class /\ Image(a).owner = a.owner
             /\ Image(a).lease = a.lease /\ Image(a).held = (a.held /\ a \notin A)
             /\ (a \notin A => Image(a) = a)
  <2>1. a \in Allocations
    OBVIOUS
  <2>2. a.held \in BOOLEAN
    BY <2>1 DEF Allocations
  <2>3. CASE a \in A
    <3>1. Image(a) = [a EXCEPT !.held = FALSE]
      BY <2>3
    <3> HIDE DEF Image
    <3>2. /\ Image(a) \in Allocations
          /\ Image(a).r = a.r /\ Image(a).class = a.class /\ Image(a).owner = a.owner
          /\ Image(a).lease = a.lease /\ Image(a).held = FALSE
      BY <3>1, <2>1 DEF Allocations
    <3> QED
      BY <3>2, <2>3
  <2>4. CASE a \notin A
    <3>1. Image(a) = a
      BY <2>4
    <3> HIDE DEF Image
    <3> QED
      BY <3>1, <2>1, <2>2, <2>4
  <2> QED
    BY <2>3, <2>4
<1> HIDE DEF Image
<1>3. Ranges(Released(A)) = Ranges(live)
  <2>1. Ranges(Released(A)) = {Image(a).r : a \in live}
    BY <1>1 DEF Ranges
  <2> QED
    BY <2>1, <1>2 DEF Ranges
<1> QED
  BY <1>1, <1>2, <1>3

\* ... so the tiling and the records stay well formed.
LEMMA ReleaseKeeps ==
  ASSUME LiveOk, Tile, NEW A, live' = Released(A), free' = free
  PROVE  LiveOk' /\ Tile'
<1>0. live \subseteq Allocations
  BY DEF LiveOk
<1>1. /\ \A b \in live' : \E a \in live :
           /\ b.r = a.r /\ b.class = a.class /\ b.owner = a.owner /\ b.lease = a.lease
           /\ b.held = (a.held /\ a \notin A) /\ b \in Allocations /\ (a \notin A => b = a)
      /\ Ranges(live') = Ranges(live)
  BY <1>0, ReleasedIs
<1>2. live' \subseteq Allocations
  BY <1>1
<1>3. \A b \in live' : Proper(b)
  BY <1>1 DEF LiveOk, Proper
<1>4. ASSUME NEW a \in live', NEW b \in live', a.r = b.r PROVE a = b
  <2>1. PICK c \in live : /\ a.r = c.r /\ a.class = c.class /\ a.owner = c.owner
                          /\ a.lease = c.lease /\ a.held = (c.held /\ c \notin A)
    BY <1>1
  <2>2. PICK d \in live : /\ b.r = d.r /\ b.class = d.class /\ b.owner = d.owner
                          /\ b.lease = d.lease /\ b.held = (d.held /\ d \notin A)
    BY <1>1
  <2>3. c = d
    BY <2>1, <2>2, <1>4 DEF LiveOk
  <2>4. a \in Allocations /\ b \in Allocations
    BY <1>2
  <2>5. a.r = b.r /\ a.class = b.class /\ a.owner = b.owner /\ a.lease = b.lease
        /\ a.held = b.held
    BY <2>1, <2>2, <2>3
  <2> QED
    BY <2>4, <2>5 DEF Allocations
<1> QED
  BY <1>1, <1>2, <1>3, <1>4 DEF LiveOk, Tile

\* A range goes back to the free lists with its record.
LEMMA ReturnKeeps ==
  ASSUME LiveOk, Tile, NEW a \in live, live' = live \ {a}, free' = Insert(free, a.r)
  PROVE  LiveOk' /\ Tile'
<1>1. LiveOk'
  BY DEF LiveOk
<1>2. Ranges(live') = Ranges(live) \ {a.r}
  BY DEF LiveOk, Ranges
<1>3. Tiling(free', Ranges(live) \ {a.r})
  <2>1. a.r \in Ranges(live)
    BY DEF Ranges
  <2>2. Tiling(free, Ranges(live))
    BY DEF Tile
  <2>3. Tiling(Insert(free, a.r), Ranges(live) \ {a.r})
    BY <2>1, <2>2, InsertTiles
  <2> QED
    BY <2>3
<1> QED
  BY <1>1, <1>2, <1>3 DEF Tile

\* The records of one batch: one for each range, all of one lease, all held.
LEMMA BatchIs ==
  ASSUME NEW R, NEW kind, NEW who, NEW b \in Batch(R, kind, who)
  PROVE  b.r \in R /\ b.class = kind /\ b.owner = who /\ b.lease = R /\ b.held
BY DEF Batch

\* commit_claim lends each range once: the batch holds one allocation for it.
LEMMA BatchOne ==
  ASSUME NEW R, NEW kind, NEW who,
         NEW a \in Batch(R, kind, who), NEW b \in Batch(R, kind, who), a.r = b.r
  PROVE  a = b
<1>1. PICK r \in R : a = [r |-> r, class |-> kind, owner |-> who, lease |-> R, held |-> TRUE]
  BY DEF Batch
<1>2. PICK q \in R : b = [r |-> q, class |-> kind, owner |-> who, lease |-> R, held |-> TRUE]
  BY DEF Batch
<1>3. r = q
  BY <1>1, <1>2
<1> QED
  BY <1>1, <1>2, <1>3

\* ... and it holds one for every range asked for.
LEMMA BatchHas ==
  ASSUME NEW R, NEW kind, NEW who, NEW r \in R
  PROVE  \E b \in Batch(R, kind, who) : b.r = r
<1> DEFINE b == [r |-> r, class |-> kind, owner |-> who, lease |-> R, held |-> TRUE]
<1>1. b \in Batch(R, kind, who)
  BY DEF Batch
<1>2. b.r = r
  OBVIOUS
<1> HIDE DEF b
<1> QED
  BY <1>1, <1>2

\* The allocations of a batch are allocations, whatever the owner.
LEMMA BatchTyped ==
  ASSUME NEW R, R \subseteq Cuts, NEW kind \in Classes,
         NEW who \in Directory \cup Sessions \cup {Nobody}, NEW b \in Batch(R, kind, who)
  PROVE  b \in Allocations
<1>1. PICK r \in R : b = [r |-> r, class |-> kind, owner |-> who, lease |-> R, held |-> TRUE]
  BY DEF Batch
<1> QED
  BY <1>1 DEF Allocations

\* The ranges of a batch are those asked for.
LEMMA BatchRanges ==
  ASSUME NEW R, NEW kind, NEW who
  PROVE  Ranges(Batch(R, kind, who)) = R
<1>1. \A b \in Batch(R, kind, who) : b.r \in R
  BY BatchIs
<1>2. \A r \in R : \E b \in Batch(R, kind, who) : b.r = r
  BY BatchHas
<1> QED
  BY <1>1, <1>2 DEF Ranges

\* A claimed batch: its ranges leave the free lists, its records are new.
LEMMA ClaimKeeps ==
  ASSUME LiveOk, Tile, NEW R \in SUBSET Cuts, NEW kind \in Classes,
         NEW who \in Directory \cup Sessions \cup {Nobody}, Claimable(R),
         \/ kind = "Expert" /\ who \in Directory /\ R = {Slots[who].r}
         \/ kind = "KvCache" /\ who \in Sessions
         \/ kind \in {"LlmRuntime", "Prefill"} /\ who = Nobody,
         live' = live \cup Batch(R, kind, who), free' = Gaps(free, R)
  PROVE  LiveOk' /\ Tile'
<1> DEFINE B == Batch(R, kind, who)
<1>0. ASSUME NEW b \in Batch(R, kind, who)
      PROVE  b.r \in R /\ b.class = kind /\ b.owner = who /\ b.lease = R
  BY BatchIs
<1>1. /\ \A b \in B : b.r \in R /\ b.class = kind /\ b.owner = who /\ b.lease = R
      /\ \A a, b \in B : a.r = b.r => a = b
      /\ Ranges(B) = R
  BY <1>0, BatchOne, BatchRanges
<1> HIDE DEF B
<1>2. Tiling(Gaps(free, R), Ranges(live) \cup R) /\ R \cap Ranges(live) = {}
  <2>1. Tiling(free, Ranges(live))
    BY DEF Tile
  <2>2. Apart(R) /\ \A r \in R : \E f \in free : Within(r, f)
    BY DEF Claimable, Apart
  <2> QED
    BY <2>1, <2>2, TakeTiles
<1>3. live' = live \cup B
  BY DEF B
<1>4. Ranges(live') = Ranges(live) \cup R
  BY <1>1, <1>3 DEF Ranges
<1>5. live' \subseteq Allocations
  <2>1. ASSUME NEW b \in B PROVE b \in Allocations
    BY BatchTyped DEF B
  <2> QED
    BY <2>1, <1>3 DEF LiveOk
<1>6. \A b \in B : Proper(b)
  BY <1>1 DEF Proper
<1>7. ASSUME NEW a \in live', NEW b \in live', a.r = b.r PROVE a = b
  <2>1. CASE a \in live /\ b \in live
    BY <2>1, <1>7 DEF LiveOk
  <2>2. CASE a \in B /\ b \in B
    BY <2>2, <1>7, <1>1
  <2>3. ~(a \in live /\ b \in B) /\ ~(a \in B /\ b \in live)
    BY <1>1, <1>2, <1>7 DEF Ranges
  <2> QED
    BY <2>1, <2>2, <2>3, <1>3
<1>8. LiveOk'
  BY <1>3, <1>5, <1>6, <1>7 DEF LiveOk
<1>9. Tile'
  BY <1>2, <1>4 DEF Tile
<1> QED
  BY <1>8, <1>9
-----------------------------------------------------------------------------
(* LiveOk and Tile, step by step.                                          *)

\* A slot's range is one of a shard.
LEMMA SlotRange ==
  ASSUME NEW i \in Directory
  PROVE  Slots[i].r \in Cuts /\ \E s \in Shards : Within(Slots[i].r, s)
BY ArenaAssumption DEF ArenaAssumption

\* ExpertArenaLayout::build leaves a tiling: slots lent, the rest free.
LEMMA TileInit ==
  ASSUME Init
  PROVE  LiveOk /\ Tile
<1> DEFINE Rec(i) == [r |-> Slots[i].r, class |-> "Expert", owner |-> i,
                      lease |-> {Slots[i].r}, held |-> TRUE]
<1>1. live = {Rec(i) : i \in Directory}
  <2>1. \A i \in Directory : Batch({Slots[i].r}, "Expert", i) = {Rec(i)}
    BY DEF Batch
  <2>2. live = UNION {Batch({Slots[i].r}, "Expert", i) : i \in Directory}
    BY DEF Init
  <2> HIDE DEF Rec
  <2>3. \A a : a \in live <=> \E i \in Directory : a \in Batch({Slots[i].r}, "Expert", i)
    BY <2>2
  <2>4. \A a : a \in live <=> \E i \in Directory : a = Rec(i)
    <3>1. ASSUME NEW a \in live PROVE \E i \in Directory : a = Rec(i)
      <4>1. PICK i \in Directory : a \in Batch({Slots[i].r}, "Expert", i)
        BY <2>3
      <4>2. a \in {Rec(i)}
        BY <4>1, <2>1
      <4> QED
        BY <4>2
    <3>2. ASSUME NEW i \in Directory PROVE Rec(i) \in live
      BY <2>1, <2>3
    <3> QED
      BY <3>1, <3>2
  <2> QED
    BY <2>4
<1>2. ASSUME NEW i \in Directory
      PROVE  /\ Rec(i) \in Allocations /\ Rec(i).r = Slots[i].r /\ Rec(i).owner = i
             /\ Rec(i).class = "Expert" /\ Rec(i).lease = {Slots[i].r} /\ Rec(i).held
  BY SlotRange DEF Allocations, Classes
<1> HIDE DEF Rec
<1>3. \A i, j \in Directory : i # j => ~Overlap(Slots[i].r, Slots[j].r)
  BY ArenaAssumption DEF ArenaAssumption
<1>4. \A c \in Cuts : Overlap(c, c)
  BY CutFields DEF Overlap
<1>5. \A i, j \in Directory : Slots[i].r = Slots[j].r => i = j
  BY <1>3, <1>4, SlotRange
<1>6. LiveOk
  <2>1. live \subseteq Allocations
    BY <1>1, <1>2
  <2>2. \A i \in Directory : Proper(Rec(i))
    <3> TAKE i \in Directory
    <3>1. Rec(i).r \in Rec(i).lease
      BY <1>2
    <3> QED
      BY <3>1, <1>2 DEF Proper
  <2>3. \A a, b \in live : a.r = b.r => a = b
    <3> TAKE a, b \in live
    <3>1. PICK i \in Directory : a = Rec(i)
      BY <1>1
    <3>2. PICK j \in Directory : b = Rec(j)
      BY <1>1
    <3>3. a.r = Slots[i].r /\ b.r = Slots[j].r
      BY <3>1, <3>2, <1>2
    <3> QED
      BY <3>1, <3>2, <3>3, <1>5
  <2>4. \A a \in live : Proper(a)
    BY <2>2, <1>1
  <2> QED
    BY <2>1, <2>3, <2>4 DEF LiveOk
<1>7. Ranges(live) = {Slots[i].r : i \in Directory} /\ free = {}
  <2>1. \A x : (\E a \in live : x = a.r) <=> \E i \in Directory : x = Slots[i].r
    <3>1. \A x : (\E a \in live : x = a.r) <=> \E i \in Directory : x = Rec(i).r
      BY <1>1
    <3>2. \A i \in Directory : Rec(i).r = Slots[i].r
      BY <1>2
    <3> QED
      BY <3>1, <3>2
  <2>2. \A x : x \in Ranges(live) <=> \E a \in live : x = a.r
    BY DEF Ranges
  <2>3. Ranges(live) = {Slots[i].r : i \in Directory}
    BY <2>1, <2>2
  <2> QED
    BY <2>3 DEF Init
<1> DEFINE R == {Slots[i].r : i \in Directory}
<1>8. R \subseteq Cuts /\ Apart(R) /\ Sharded(R)
  BY <1>3, SlotRange DEF Apart, Sharded
<1>9. Covers(R)
  <2>1. CellsIn(R) = 0..(Total - 1)
    BY ArenaAssumption DEF ArenaAssumption
  <2> HIDE DEF R
  <2> QED
    BY <2>1 DEF CellsIn, Covers
<1>10. Tiling({}, R)
  <2> HIDE DEF R
  <2>1. {} \cup R = R
    OBVIOUS
  <2> QED
    BY <2>1, <1>8, <1>9 DEF Tiling, Coalesced
<1> QED
  BY <1>6, <1>7, <1>10 DEF Tile

\* Claim, drop and restore all keep the tiling and the ownership of its pieces.
LEMMA TileNext ==
  ASSUME LiveOk, Tile, CtlOk, [Next]_vars
  PROVE  LiveOk' /\ Tile'
<1>0. ASSUME live' = live, free' = free PROVE LiveOk' /\ Tile'
  BY <1>0 DEF LiveOk, Tile
<1>1. ASSUME NEW a \in live, GiveBack(a) PROVE LiveOk' /\ Tile'
  BY <1>1, ReturnKeeps DEF GiveBack
<1>2. ASSUME NEW a \in live, CloseWork(a) PROVE LiveOk' /\ Tile'
  BY <1>2, ReleaseKeeps DEF CloseWork
<1>3. ASSUME NEW k \in Sessions, CloseSegment(k) \/ TrimSegment(k) PROVE LiveOk' /\ Tile'
  <2>1. free' = free /\ \E A : live' = Released(A)
    BY <1>3 DEF CloseSegment, TrimSegment, DropSegment
  <2> QED
    BY <2>1, ReleaseKeeps
<1>4. ASSUME NEW k \in Sessions, DropReservation(k) \/ ReserveKv(k) \/ PlanGrow(k)
                                  \/ StartTrim(k) \/ EndTrim(k)
      PROVE  LiveOk' /\ Tile'
  BY <1>4, <1>0 DEF DropReservation, ReserveKv, PlanGrow, StartTrim, EndTrim
<1>5. ASSUME NEW n \in WorkSizes, StartWork(n) PROVE LiveOk' /\ Tile'
  BY <1>5, <1>0 DEF StartWork
<1>6. ASSUME NEW k \in Sessions, NEW n \in 1..MaxSegs, StartGrow(k, n) PROVE LiveOk' /\ Tile'
  BY <1>6, ReleaseKeeps DEF StartGrow, EnterDecode
<1>7. CASE StartDecode
  BY <1>7, ReleaseKeeps DEF StartDecode, EnterDecode
<1>8. CASE StartRing \/ StartRestore \/ EndRestore \/ PlanWork \/ PlanRing
  BY <1>8, <1>0 DEF StartRing, StartRestore, EndRestore, PlanWork, PlanRing
<1>9. CASE RestoreSlot
  <2> DEFINE r == Slots[cursor].r
  <2>1. cursor \in Directory
    BY <1>9 DEF RestoreSlot
  <2>2. CASE live' = live /\ free' = free
    BY <2>2, <1>0
  <2>3. CASE /\ Claimable({r}) /\ live' = live \cup Batch({r}, "Expert", cursor)
             /\ free' = Gaps(free, {r})
    <3>1. {r} \in SUBSET Cuts /\ {r} = {Slots[cursor].r}
      BY <2>1, SlotRange
    <3> HIDE DEF r
    <3>2. "Expert" \in Classes /\ cursor \in Directory \cup Sessions \cup {Nobody}
      BY <2>1 DEF Classes
    <3> QED
      BY <3>1, <3>2, <2>1, <2>3, ClaimKeeps
  <2> QED
    BY <1>9, <2>2, <2>3 DEF RestoreSlot
<1>10. CASE Retire
  BY <1>10, ReleaseKeeps DEF Retire
<1>11. CASE Commit
  <2>1. CASE live' = live /\ free' = free
    BY <2>1, <1>0
  <2>2. CASE /\ Claimable(plan.ranges)
             /\ live' = live \cup Batch(plan.ranges, goal.class, goal.owner)
             /\ free' = Gaps(free, plan.ranges)
    <3>1. plan.ranges \in SUBSET Cuts
      BY DEF CtlOk, Plans
    <3>2. /\ goal.class \in Classes /\ goal.owner \in Directory \cup Sessions \cup {Nobody}
          /\ \/ goal.class = "KvCache" /\ goal.owner \in Sessions
             \/ goal.class \in {"LlmRuntime", "Prefill"} /\ goal.owner = Nobody
      <4>1. gate = "retire"
        BY <1>11 DEF Commit
      <4>2. /\ goal.class \in {"none", "KvCache", "Trim", "LlmRuntime", "Prefill"}
            /\ goal.owner \in Sessions \cup {Nobody} /\ goal.class \notin {"none", "Trim"}
            /\ (goal.class \in {"KvCache", "Trim"} <=> goal.owner \in Sessions)
        BY <4>1 DEF CtlOk, Goals
      <4> QED
        BY <4>2 DEF Classes
    <3> QED
      BY <3>1, <3>2, <2>2, ClaimKeeps
  <2> QED
    BY <1>11, <2>1, <2>2 DEF Commit
<1>12. CASE UNCHANGED vars
  BY <1>12, <1>0 DEF vars
<1> QED
  BY <1>1, <1>2, <1>3, <1>4, <1>5, <1>6, <1>7, <1>8, <1>9, <1>10, <1>11, <1>12 DEF Next
-----------------------------------------------------------------------------
(* What the planners choose.                                               *)

\* The first fit and the last fit lie in a gap.
LEMMA LowFitIn ==
  ASSUME NEW G \in SUBSET Cuts, NEW n \in Nat \ {0}, Fitting(G, n) # {}
  PROVE  /\ LowFit(G, n) \in Cuts /\ \E g \in G : Within(LowFit(G, n), g)
<1> DEFINE S == {g.from : g \in Fitting(G, n)}
           x == Min(S)
<1>1. \A g \in Fitting(G, n) : /\ g \in G /\ g \in Cuts /\ g.from \in Nat /\ g.to \in Nat
                               /\ g.to - g.from >= n /\ g.to <= Total
  BY CutFields DEF Fitting, Size
<1>2. S \in SUBSET Nat /\ S # {}
  BY <1>1
<1>3. x \in S
  <2> HIDE DEF S
  <2> QED
    BY <1>2, MinIn
<1>4. PICK g \in Fitting(G, n) : x = g.from
  BY <1>3
<1>5. LowFit(G, n) = Cut(x, x + n)
  BY DEF LowFit
<1> HIDE DEF x
<1>6. x \in Nat /\ x + n \in Nat /\ x < x + n /\ x + n <= g.to /\ g.to <= Total
  BY <1>1, <1>4
<1>7. Total \in Nat /\ g.to \in Nat
  BY <1>1, ArenaAssumption DEF ArenaAssumption
<1>8. Cut(x, x + n) \in Cuts /\ Cut(x, x + n).from = x /\ Cut(x, x + n).to = x + n
  BY <1>6, <1>7, CutIsRange
<1>9. Within(Cut(x, x + n), g)
  BY <1>4, <1>6, <1>8 DEF Within
<1> QED
  BY <1>1, <1>5, <1>8, <1>9

\* The highest placement of n units is a range inside one of the gaps.
LEMMA HighFitIn ==
  ASSUME NEW G \in SUBSET Cuts, NEW n \in Nat \ {0}, Fitting(G, n) # {}
  PROVE  /\ HighFit(G, n) \in Cuts /\ \E g \in G : Within(HighFit(G, n), g)
<1> DEFINE S == {g.to : g \in Fitting(G, n)}
           x == Max(S)
<1>1. \A g \in Fitting(G, n) : /\ g \in G /\ g \in Cuts /\ g.from \in Nat /\ g.to \in Nat
                               /\ g.to - g.from >= n /\ g.to <= Total
  BY CutFields DEF Fitting, Size
<1>0. Total \in Nat
  BY ArenaAssumption DEF ArenaAssumption
<1>2. S \in SUBSET (0..Total) /\ S # {}
  BY <1>0, <1>1
<1>3. x \in S
  <2> HIDE DEF S
  <2> QED
    BY <1>0, <1>2, MaxIn
<1>4. PICK g \in Fitting(G, n) : x = g.to
  BY <1>3
<1>5. HighFit(G, n) = Cut(x - n, x)
  BY DEF HighFit
<1> HIDE DEF x
<1>6. x \in Nat /\ x - n \in Nat /\ x - n < x /\ g.from <= x - n /\ x <= Total
  BY <1>0, <1>1, <1>4
<1>8. Cut(x - n, x) \in Cuts /\ Cut(x - n, x).from = x - n /\ Cut(x - n, x).to = x
  BY <1>6, CutIsRange
<1>9. Within(Cut(x - n, x), g)
  BY <1>1, <1>4, <1>6, <1>8 DEF Within
<1> QED
  BY <1>1, <1>5, <1>8, <1>9

\* The cells of some ranges can be counted.
LEMMA CellsFinite ==
  ASSUME NEW F \in SUBSET Cuts
  PROVE  Cardinality(CellsIn(F)) \in Nat
<1>0. Total \in Nat
  BY ArenaAssumption DEF ArenaAssumption
<1>1. IsFiniteSet(0..Total)
  BY <1>0, FS_Interval
<1>2. CellsIn(F) \subseteq 0..Total
  <2> SUFFICES ASSUME NEW c \in CellsIn(F) PROVE c \in 0..Total
    OBVIOUS
  <2>1. PICK f \in F : c \in CellsOf(f)
    BY DEF CellsIn
  <2>2. f.from \in Nat /\ f.to \in Nat /\ f.to <= Total
    BY CutFields
  <2> QED
    BY <2>1, <2>2, <1>0 DEF CellsOf
<1>3. IsFiniteSet(CellsIn(F))
  BY <1>1, <1>2, FS_Subset
<1> QED
  BY <1>3, FS_CardinalityType

\* The windows of a corridor are the parts of the shards in it.
LEMMA CorridorIs ==
  ASSUME NEW x \in Nat, NEW y \in Nat, x <= Total, y <= Total, x = 0 \/ y = Total
  PROVE  /\ Corridor(x, y) \subseteq Cuts
         /\ \A w \in Corridor(x, y) : x <= w.from /\ w.to <= y /\ \E s \in Shards : Within(w, s)
         /\ \A v, w \in Corridor(x, y) : v # w => ~Overlap(v, w)
<1>0. Total \in Nat
  BY ArenaAssumption DEF ArenaAssumption
<1> DEFINE Part(s) == Cut(Max({s.from, x}), Min({s.to, y}))
           Hit == {s \in Shards : Overlap(s, Cut(x, y))}
<1>1. Corridor(x, y) = {Part(s) : s \in Hit}
  BY DEF Corridor
<1>2. ASSUME NEW s \in Hit
      PROVE  /\ s \in Shards /\ Part(s) \in Cuts /\ Within(Part(s), s)
             /\ x <= Part(s).from /\ Part(s).to <= y
  <2>1. s \in Shards /\ s \in Cuts /\ s.from \in Nat /\ s.to \in Nat /\ s.from < s.to
        /\ s.to <= Total
    BY ShardIsCut, CutFields
  <2>2. s.from < y /\ x < s.to
    <3>1. Overlap(s, Cut(x, y))
      OBVIOUS
    <3>2. Cut(x, y).from = x /\ Cut(x, y).to = y
      BY DEF Cut
    <3> QED
      BY <3>1, <3>2 DEF Overlap
  <2>3. x < y
    BY <2>1, <2>2, <1>0
  <2> DEFINE lo == Max({s.from, x})
             hi == Min({s.to, y})
  <2>4. lo \in {s.from, x} /\ lo >= s.from /\ lo >= x
    <3>1. {s.from, x} \in SUBSET (0..Total) /\ {s.from, x} # {}
      BY <2>1, <1>0
    <3> QED
      BY <3>1, <1>0, MaxIn
  <2>5. hi \in {s.to, y} /\ hi <= s.to /\ hi <= y
    <3>1. {s.to, y} \in SUBSET Nat /\ {s.to, y} # {}
      BY <2>1
    <3> QED
      BY <3>1, MinIn
  <2> HIDE DEF lo, hi
  <2>6. lo \in Nat /\ hi \in Nat /\ lo < hi /\ hi <= Total
    BY <2>1, <2>2, <2>3, <2>4, <2>5
  <2>7. Cut(lo, hi) \in Cuts /\ Cut(lo, hi).from = lo /\ Cut(lo, hi).to = hi
    BY <2>6, CutIsRange
  <2>8. Within(Cut(lo, hi), s)
    BY <2>4, <2>5, <2>7 DEF Within
  <2>9. Part(s) = Cut(lo, hi)
    BY DEF lo, hi
  <2> HIDE DEF Part
  <2> QED
    BY <2>1, <2>4, <2>5, <2>7, <2>8, <2>9
<1> HIDE DEF Part, Hit
<1>3. ASSUME NEW s \in Hit, NEW t \in Hit, Overlap(Part(s), Part(t)) PROVE Part(s) = Part(t)
  <2>1. s \in Shards /\ t \in Shards /\ s \in Cuts /\ t \in Cuts
    BY <1>2, ShardIsCut
  <2>2. Overlap(s, t)
    BY <1>2, <1>3, <2>1, CutFields DEF Overlap, Within
  <2> QED
    BY <2>1, <2>2, ShardsApart
<1>4. \A v, w \in Corridor(x, y) : v # w => ~Overlap(v, w)
  BY <1>1, <1>3
<1> QED
  BY <1>1, <1>2, <1>4

\* Ranges chosen in the gaps of a corridor, one per gap, are clear of each
\* other and of every blocker, and each lies in one shard of the corridor.
LEMMA ChosenInGaps ==
  ASSUME NEW x \in Nat, NEW y \in Nat, x <= Total, y <= Total, x = 0 \/ y = Total,
         NEW Q \in SUBSET Cuts, NEW r \in Cuts,
         NEW g \in Gaps(Corridor(x, y), Q), Within(r, g)
  PROVE  /\ x <= r.from /\ r.to <= y /\ \E s \in Shards : Within(r, s)
         /\ \A b \in Q : ~Overlap(r, b) /\ ~Overlap(b, r)
<1>1. g \in Cuts /\ \A b \in Q : ~Overlap(g, b)
  BY GapIs
<1>2. PICK w \in Corridor(x, y) : Within(g, w)
  BY GapIs
<1>3. w \in Cuts /\ x <= w.from /\ w.to <= y
  BY CorridorIs
<1>4. PICK s \in Shards : Within(w, s)
  BY CorridorIs
<1>5. s \in Cuts
  BY ShardIsCut
<1>6. r.from \in Nat /\ r.to \in Nat /\ g.from \in Nat /\ g.to \in Nat
      /\ w.from \in Nat /\ w.to \in Nat /\ s.from \in Nat /\ s.to \in Nat
  BY <1>1, <1>3, <1>5, CutFields
<1>7. x <= r.from /\ r.to <= y /\ Within(r, s)
  BY <1>2, <1>3, <1>4, <1>6 DEF Within
<1>8. \A b \in Q : ~Overlap(r, b) /\ ~Overlap(b, r)
  BY <1>1, PartOverlaps DEF Overlap
<1> QED
  BY <1>7, <1>8

\* The gaps of a corridor that starts or ends with the arena do not overlap.
LEMMA CorridorGapsApart ==
  ASSUME NEW x \in Nat, NEW y \in Nat, x <= Total, y <= Total, x = 0 \/ y = Total,
         NEW Q \in SUBSET Cuts,
         NEW g \in Gaps(Corridor(x, y), Q), NEW h \in Gaps(Corridor(x, y), Q), Overlap(g, h)
  PROVE  g = h
<1>1. Corridor(x, y) \in SUBSET Cuts
  BY CorridorIs
<1>2. \A v, w \in Corridor(x, y) : v # w => ~Overlap(v, w)
  BY CorridorIs
<1> QED
  BY <1>1, <1>2, GapsApart

\* A split claim takes some gaps whole and the lower end of one more.
LEMMA SplitsIn ==
  ASSUME NEW G \in SUBSET Cuts, \A g, h \in G : g # h => ~Overlap(g, h),
         NEW n \in Nat, NEW R \in Splits(G, n)
  PROVE  /\ R \subseteq Cuts /\ Apart(R) /\ \A r \in R : \E g \in G : Within(r, g)
<1> DEFINE Rest(F) == n - Cardinality(CellsIn(F))
<1> DEFINE Full == {F \in SUBSET G : /\ Cardinality(CellsIn(F)) < n
                                     /\ \A f \in F, g \in G \ F : Larger(f, g)}
           Last(F) == {l \in Fitting(G \ F, Rest(F)) :
                         \A g \in Fitting(G \ F, Rest(F)) :
                             Size(l) < Size(g) \/ (Size(l) = Size(g) /\ l.from <= g.from)}
           With(F) == {F \cup {Cut(l.from, l.from + Rest(F))} : l \in Last(F)}
<1>0. Splits(G, n) = UNION {With(F) : F \in Full}
  BY DEF Splits
<1>a. PICK F \in Full : R \in With(F)
  <2> HIDE DEF With, Full
  <2> QED
    BY <1>0
<1>1. F \in SUBSET G /\ F \in SUBSET Cuts /\ Cardinality(CellsIn(F)) < n
  OBVIOUS
<1>b. PICK k \in Last(F) : R = F \cup {Cut(k.from, k.from + Rest(F))}
  <2> HIDE DEF Last
  <2> QED
    BY <1>a
<1>c. Last(F) \subseteq Fitting(G \ F, Rest(F))
  OBVIOUS
<1> HIDE DEF With, Full, Last
<1>2. PICK l \in Fitting(G \ F, Rest(F)) : R = F \cup {Cut(l.from, l.from + Rest(F))}
  BY <1>b, <1>c
<1> DEFINE m == Rest(F)
           p == Cut(l.from, l.from + m)
<1>3. m \in Nat \ {0}
  <2>1. Cardinality(CellsIn(F)) \in Nat
    BY <1>1, CellsFinite
  <2> QED
    BY <2>1, <1>1
<1> HIDE DEF m
<1>4. l \in G /\ l \notin F /\ l \in Cuts /\ l.from \in Nat /\ l.to \in Nat
      /\ l.to - l.from >= m /\ l.to <= Total
  BY <1>2, CutFields DEF Fitting, Size, m
<1>5. l.from + m \in Nat /\ l.from < l.from + m /\ l.from + m <= l.to
      /\ l.from + m <= Total
  <2>1. Total \in Nat
    BY ArenaAssumption DEF ArenaAssumption
  <2> QED
    BY <2>1, <1>3, <1>4
<1>6. p \in Cuts /\ p.from = l.from /\ p.to = l.from + m
  BY <1>4, <1>5, CutIsRange
<1>7. R = F \cup {p}
  BY <1>2 DEF m
<1> HIDE DEF p
<1>8. Within(p, l)
  BY <1>4, <1>5, <1>6 DEF Within
<1>9. \A f \in F : ~Overlap(p, f) /\ ~Overlap(f, p)
  <2> TAKE f \in F
  <2>1. f \in Cuts /\ ~Overlap(l, f)
    BY <1>1, <1>4
  <2> QED
    BY <2>1, <1>4, <1>6, <1>8, PartOverlaps DEF Overlap
<1>10. Apart(R)
  BY <1>1, <1>7, <1>9 DEF Apart
<1>11. \A r \in R : \E g \in G : Within(r, g)
  <2>1. \A f \in F : Within(f, f)
    BY <1>1, CutFields DEF Within
  <2> QED
    BY <2>1, <1>1, <1>4, <1>7, <1>8
<1> QED
  BY <1>1, <1>6, <1>7, <1>10, <1>11
-----------------------------------------------------------------------------
(* The frozen coordinates.                                                 *)

\* A layout has its MaxSegs coordinates; without one a session has none.
LEMMA LayoutIs ==
  ASSUME NEW at \in Layouts
  PROVE  /\ DOMAIN at = 1..MaxSegs /\ Len(at) = MaxSegs /\ at # <<>>
         /\ \A i \in 1..MaxSegs : at[i] \in Cuts
<1>1. MaxSegs \in Nat /\ MaxSegs > 0
  BY ArenaAssumption DEF ArenaAssumption
<1>2. at \in Seq(Cuts) /\ DOMAIN at = 1..MaxSegs /\ \A i \in 1..MaxSegs : at[i] \in Cuts
  BY <1>1 DEF Layouts
<1>3. Len(at) = MaxSegs
  BY <1>1, <1>2
<1>4. at # <<>>
  BY <1>1, <1>3
<1> QED
  BY <1>2, <1>3, <1>4

\* What a session's cache looks like before and after its layout is frozen.
LEMMA CacheIs ==
  ASSUME KvOk, NEW k \in Sessions
  PROVE  /\ kv[k] \in Caches /\ kv[k].depth \in 0..MaxSegs /\ kv[k].closing \in BOOLEAN
         /\ kv[k].at = <<>> => DOMAIN kv[k].at = {} /\ Len(kv[k].at) = 0 /\ kv[k].depth = 0
         /\ kv[k].at # <<>> => kv[k].at \in Layouts
<1>1. kv[k] \in Caches /\ (kv[k].at = <<>> => kv[k].depth = 0)
  BY DEF KvOk
<1>2. kv[k].at \in {<<>>} \cup Layouts /\ kv[k].depth \in 0..MaxSegs /\ kv[k].closing \in BOOLEAN
  BY <1>1 DEF Caches
<1>3. DOMAIN <<>> = {} /\ Len(<<>>) = 0
  OBVIOUS
<1> QED
  BY <1>1, <1>2, <1>3

\* Reserved holds the coordinates of every session with a layout.
LEMMA ReservedIs ==
  ASSUME KvOk
  PROVE  /\ Reserved \subseteq Cuts
         /\ \A l \in Sessions : kv[l].at # <<>> => \A j \in 1..MaxSegs : kv[l].at[j] \in Reserved
<1>1. ASSUME NEW l \in Sessions, kv[l].at # <<>>, NEW j \in 1..MaxSegs
      PROVE  kv[l].at[j] \in Reserved
  <2>1. j \in DOMAIN kv[l].at
    BY <1>1, CacheIs, LayoutIs
  <2> QED
    BY <2>1 DEF Reserved
<1>2. ASSUME NEW c \in Reserved PROVE c \in Cuts
  <2>1. PICK l \in Sessions : c \in {kv[l].at[i] : i \in DOMAIN kv[l].at}
    BY DEF Reserved
  <2>2. PICK i \in DOMAIN kv[l].at : c = kv[l].at[i]
    BY <2>1
  <2>3. kv[l].at \in Layouts
    BY <2>2, CacheIs
  <2> QED
    BY <2>2, <2>3, LayoutIs
<1> QED
  BY <1>1, <1>2

\* The ranges a planner keeps clear of are ranges.
LEMMA BlockersAre ==
  ASSUME LiveOk
  PROVE  /\ Others \subseteq Cuts
         /\ \A P : Pinned(P) \subseteq Cuts
         /\ \A a \in live : a.class # "Expert" => a.r \in Others
<1>1. \A a \in live : a.r \in Cuts
  BY DEF LiveOk, Allocations
<1> QED
  BY <1>1 DEF Others, Pinned, Experts

\* Coordinates only ever go away, or are laid all at once.
LEMMA KvFewer ==
  ASSUME KvOk, kv' \in [Sessions -> Caches],
         \A k \in Sessions : kv'[k].at = kv[k].at \/ kv'[k].at = <<>>,
         \A k \in Sessions : kv'[k].at = <<>> => kv'[k].depth = 0
  PROVE  KvOk'
BY DEF KvOk

\* reserve_kv_layout either gives up or freezes coordinates that are apart from
\* those of the other sessions and from every live owner but experts.
LEMMA KvLaid ==
  ASSUME LiveOk, KvOk, NEW k \in Sessions, ReserveKv(k)
  PROVE  /\ KvOk' /\ kv[k].at = <<>>
         /\ kv' = kv \/ /\ kv' = [kv EXCEPT ![k].at = kv'[k].at] /\ kv'[k].at \in Layouts
                        /\ UNCHANGED <<gate, goal, plan>>
                        /\ \A i \in 1..MaxSegs, a \in live :
                              a.class # "Expert" => ~Overlap(a.r, kv'[k].at[i])
<1>0. /\ FloorFrom \in Nat /\ FloorFrom <= Total /\ 0 <= Total /\ SegLen \in Nat \ {0}
      /\ MaxSegs \in Nat
  BY ArenaAssumption DEF ArenaAssumption
<1>1. kv[k].at = <<>>
  BY DEF ReserveKv
<1> DEFINE Room(P, at, i) == Gaps(Corridor(0, FloorFrom), Others \cup Pinned(P) \cup Reserved
                                                          \cup {at[j] : j \in 1..(i - 1)})
           Laid(P) == {at \in [1..MaxSegs -> {c \in Cuts : Size(c) = SegLen /\ c.to <= FloorFrom}] :
                         \A i \in 1..MaxSegs : /\ Fitting(Room(P, at, i), SegLen) # {}
                                               /\ at[i] = LowFit(Room(P, at, i), SegLen)}
<1>2. PICK P \in Pins : \/ /\ \E at \in Laid(P) : kv' = [kv EXCEPT ![k].at = at]
                           /\ UNCHANGED <<gate, goal, plan>>
                        \/ kv' = kv
  BY DEF ReserveKv
<1>3. CASE kv' = kv
  BY <1>1, <1>3 DEF KvOk
<1>4. CASE /\ \E at \in Laid(P) : kv' = [kv EXCEPT ![k].at = at]
           /\ UNCHANGED <<gate, goal, plan>>
  <2>1. PICK at \in Laid(P) : kv' = [kv EXCEPT ![k].at = at]
    BY <1>4
  <2>2. /\ at \in [1..MaxSegs -> {c \in Cuts : Size(c) = SegLen /\ c.to <= FloorFrom}]
        /\ \A i \in 1..MaxSegs : /\ Fitting(Room(P, at, i), SegLen) # {}
                                 /\ at[i] = LowFit(Room(P, at, i), SegLen)
    OBVIOUS
  <2> HIDE DEF Laid
  <2>3. at \in Layouts /\ \A i \in 1..MaxSegs : at[i] \in Cuts
    BY <2>2 DEF Layouts
  <2>4. ASSUME NEW i \in 1..MaxSegs
        PROVE  /\ at[i].to <= FloorFrom /\ \E s \in Shards : Within(at[i], s)
               /\ \A b \in Others \cup Reserved : ~Overlap(at[i], b) /\ ~Overlap(b, at[i])
               /\ \A j \in 1..(i - 1) : ~Overlap(at[i], at[j]) /\ ~Overlap(at[j], at[i])
    <3> DEFINE Q == Others \cup Pinned(P) \cup Reserved \cup {at[j] : j \in 1..(i - 1)}
               G == Gaps(Corridor(0, FloorFrom), Q)
    <3>1. Q \in SUBSET Cuts
      <4>1. \A j \in 1..(i - 1) : at[j] \in Cuts
        BY <2>3, <1>0
      <4> QED
        BY <4>1, BlockersAre, ReservedIs
    <3>2. Fitting(G, SegLen) # {} /\ at[i] = LowFit(G, SegLen)
      BY <2>2
    <3>3. Others \subseteq Q /\ Reserved \subseteq Q /\ \A j \in 1..(i - 1) : at[j] \in Q
      OBVIOUS
    <3> HIDE DEF Q
    <3>4. G \in SUBSET Cuts
      BY GapIs
    <3>5. PICK g \in G : Within(at[i], g)
      <4> HIDE DEF G
      <4> QED
        BY <3>2, <3>4, <1>0, LowFitIn
    <3>6. at[i] \in Cuts /\ 0 \in Nat /\ FloorFrom \in Nat
      BY <2>3, <1>0
    <3>7. /\ at[i].to <= FloorFrom /\ \E s \in Shards : Within(at[i], s)
          /\ \A b \in Q : ~Overlap(at[i], b) /\ ~Overlap(b, at[i])
      BY <3>1, <3>5, <3>6, <1>0, ChosenInGaps
    <3> QED
      BY <3>3, <3>7
  <2>5. ASSUME NEW i \in 1..MaxSegs, NEW j \in 1..MaxSegs, i # j PROVE ~Overlap(at[i], at[j])
    <3>1. i \in 1..(j - 1) \/ j \in 1..(i - 1)
      BY <2>5, <1>0
    <3> QED
      BY <3>1, <2>4
  <2> DEFINE g == [kv[k] EXCEPT !.at = at]
  <2>6. kv[k] \in Caches /\ kv \in [Sessions -> Caches]
    BY DEF KvOk
  <2>7. g \in Caches /\ g.at = at /\ g.depth = kv[k].depth
    BY <2>3, <2>6 DEF Caches
  <2>8. kv' = [kv EXCEPT ![k] = g]
    BY <2>1
  <2> HIDE DEF g
  <2>9. /\ kv' \in [Sessions -> Caches] /\ kv'[k] = g
        /\ \A l \in Sessions : l # k => kv'[l] = kv[l]
    BY <2>6, <2>7, <2>8
  <2>10. at # <<>>
    BY <2>3, LayoutIs
  <2>11. ASSUME NEW l \in Sessions, kv'[l].at # <<>>, NEW i \in 1..MaxSegs
         PROVE  /\ kv'[l].at[i].to <= FloorFrom /\ \E s \in Shards : Within(kv'[l].at[i], s)
                /\ \A m \in Sessions : kv'[m].at # <<>> => \A j \in 1..MaxSegs :
                      l # m \/ i # j => ~Overlap(kv'[l].at[i], kv'[m].at[j])
    <3>1. CASE l = k
      <4>1. ASSUME NEW m \in Sessions, kv'[m].at # <<>>, NEW j \in 1..MaxSegs, l # m \/ i # j
            PROVE  ~Overlap(kv'[l].at[i], kv'[m].at[j])
        <5>1. CASE m = k
          BY <5>1, <3>1, <4>1, <2>5, <2>7, <2>9
        <5>2. CASE m # k
          <6>1. kv'[m].at[j] \in Reserved
            BY <5>2, <4>1, <2>9, ReservedIs
          <6> QED
            BY <6>1, <3>1, <2>4, <2>7, <2>9
        <5> QED
          BY <5>1, <5>2
      <4> QED
        BY <4>1, <3>1, <2>4, <2>7, <2>9
    <3>2. CASE l # k
      <4>1. kv'[l] = kv[l] /\ kv[l].at # <<>>
        BY <3>2, <2>9, <2>11
      <4>2. ASSUME NEW m \in Sessions, kv'[m].at # <<>>, NEW j \in 1..MaxSegs, l # m \/ i # j
            PROVE  ~Overlap(kv'[l].at[i], kv'[m].at[j])
        <5>1. CASE m = k
          <6>1. kv[l].at[i] \in Reserved
            BY <4>1, ReservedIs
          <6> QED
            BY <6>1, <5>1, <4>1, <2>4, <2>7, <2>9
        <5>2. CASE m # k
          BY <5>2, <4>1, <4>2, <2>9 DEF KvOk
        <5> QED
          BY <5>1, <5>2
      <4> QED
        BY <4>1, <4>2 DEF KvOk
    <3> QED
      BY <3>1, <3>2
  <2>12. \A l \in Sessions : kv'[l].at = <<>> => kv'[l].depth = 0
    BY <2>7, <2>9, <2>10 DEF KvOk
  <2>13. KvOk'
    BY <2>9, <2>11, <2>12 DEF KvOk
  <2>14. \A i \in 1..MaxSegs, a \in live : a.class # "Expert" => ~Overlap(a.r, at[i])
    BY <2>4, BlockersAre
  <2> QED
    BY <2>1, <2>3, <2>7, <2>9, <2>13, <2>14, <1>1, <1>4
<1> QED
  BY <1>2, <1>3, <1>4

\* No session has a layout at first.
LEMMA KvInit ==
  ASSUME Init
  PROVE  KvOk
<1>1. 0 \in 0..MaxSegs
  BY ArenaAssumption DEF ArenaAssumption
<1>2. NoKv \in Caches /\ NoKv.at = <<>> /\ NoKv.depth = 0
  BY <1>1 DEF NoKv, Caches
<1>3. kv = [k \in Sessions |-> NoKv]
  BY DEF Init
<1> QED
  BY <1>2, <1>3 DEF KvOk

\* The frozen layouts stay below the floor and apart, whatever happens next.
LEMMA KvNext ==
  ASSUME LiveOk, KvOk, CtlOk, PlanOk, [Next]_vars
  PROVE  KvOk'
<1>0. CASE kv' = kv
  BY <1>0 DEF KvOk
<1>1. ASSUME NEW k \in Sessions, CloseSegment(k) PROVE KvOk'
  <2> DEFINE g == [kv[k] EXCEPT !.closing = TRUE]
  <2>1. kv \in [Sessions -> Caches] /\ kv[k] \in Caches
    BY DEF KvOk
  <2>2. g \in Caches /\ g.at = kv[k].at /\ g.depth = kv[k].depth
    BY <2>1 DEF Caches
  <2>3. kv' = [kv EXCEPT ![k] = g]
    BY <1>1 DEF CloseSegment
  <2> HIDE DEF g
  <2>4. kv' \in [Sessions -> Caches] /\ kv'[k] = g /\ \A l \in Sessions : l # k => kv'[l] = kv[l]
    BY <2>1, <2>2, <2>3
  <2>5. \A l \in Sessions : kv'[l].at = kv[l].at /\ kv'[l].depth = kv[l].depth
    BY <2>2, <2>4
  <2>6. \A l \in Sessions : kv[l].at = <<>> => kv[l].depth = 0
    BY DEF KvOk
  <2> QED
    BY <2>4, <2>5, <2>6, KvFewer
<1>2. ASSUME NEW k \in Sessions, DropReservation(k) PROVE KvOk'
  <2>1. kv \in [Sessions -> Caches]
    BY DEF KvOk
  <2>2. NoKv \in Caches /\ NoKv.at = <<>> /\ NoKv.depth = 0
    <3>1. 0 \in 0..MaxSegs
      BY ArenaAssumption DEF ArenaAssumption
    <3> QED
      BY <3>1 DEF NoKv, Caches
  <2>3. kv' = [kv EXCEPT ![k] = NoKv]
    BY <1>2 DEF DropReservation
  <2>4. /\ kv' \in [Sessions -> Caches] /\ kv'[k] = NoKv
        /\ \A l \in Sessions : l # k => kv'[l] = kv[l]
    BY <2>1, <2>2, <2>3
  <2>5. \A l \in Sessions : kv'[l].at = kv[l].at \/ kv'[l].at = <<>>
    BY <2>2, <2>4
  <2>6. \A l \in Sessions : kv'[l].at = <<>> => kv'[l].depth = 0
    BY <2>2, <2>4 DEF KvOk
  <2> QED
    BY <2>4, <2>5, <2>6, KvFewer
<1>3. ASSUME NEW k \in Sessions, ReserveKv(k) PROVE KvOk'
  BY <1>3, KvLaid
<1>4. ASSUME Commit, goal.class = "KvCache",
             kv' = [kv EXCEPT ![goal.owner].depth = goal.size], kv[goal.owner].at # <<>>
      PROVE  KvOk'
  <2>1. goal.owner \in Sessions
    BY <1>4 DEF CtlOk
  <2> DEFINE k == goal.owner
             g == [kv[k] EXCEPT !.depth = goal.size]
  <2>2. kv \in [Sessions -> Caches] /\ kv[k] \in Caches
    BY <2>1 DEF KvOk
  <2>3. goal.size \in 0..MaxSegs
    <3>1. goal.size \in (kv[k].depth + 1)..MaxSegs /\ kv[k].depth \in 0..MaxSegs
      BY <1>4, <2>2 DEF CtlOk, Caches
    <3>2. MaxSegs \in Nat
      BY ArenaAssumption DEF ArenaAssumption
    <3> QED
      BY <3>1, <3>2
  <2>4. g \in Caches /\ g.at = kv[k].at
    BY <2>2, <2>3 DEF Caches
  <2>5. kv' = [kv EXCEPT ![k] = g]
    BY <1>4
  <2> HIDE DEF g
  <2>6. kv' \in [Sessions -> Caches] /\ kv'[k] = g /\ \A l \in Sessions : l # k => kv'[l] = kv[l]
    BY <2>1, <2>2, <2>4, <2>5
  <2>7. \A l \in Sessions : kv'[l].at = kv[l].at
    BY <2>4, <2>6
  <2>8. \A l \in Sessions : kv'[l].at = <<>> => kv'[l].depth = 0
    BY <2>4, <2>6, <1>4 DEF KvOk
  <2> QED
    BY <2>6, <2>7, <2>8, KvFewer
<1>5. CASE Commit
  <2>1. goal.class = "KvCache" => kv[goal.owner].at # <<>>
    BY <1>5 DEF Commit, PlanOk
  <2>2. kv' = kv \/ (goal.class = "KvCache" /\ kv' = [kv EXCEPT ![goal.owner].depth = goal.size])
    BY <1>5 DEF Commit
  <2> QED
    BY <1>0, <1>4, <1>5, <2>1, <2>2
<1>6. ASSUME NEW a \in live, GiveBack(a) \/ CloseWork(a) PROVE kv' = kv
  BY <1>6 DEF GiveBack, CloseWork
<1>7. ASSUME NEW k \in Sessions, PlanGrow(k) PROVE kv' = kv
  BY <1>7 DEF PlanGrow
<1>8. ASSUME NEW n \in WorkSizes, StartWork(n) PROVE kv' = kv
  BY <1>8 DEF StartWork
<1>9. ASSUME NEW k \in Sessions, NEW n \in 1..MaxSegs, StartGrow(k, n) PROVE kv' = kv
  BY <1>9 DEF StartGrow
<1>10. CASE StartDecode \/ StartRing \/ StartRestore \/ RestoreSlot \/ EndRestore
  BY <1>0, <1>10 DEF StartDecode, StartRing, StartRestore, RestoreSlot, EndRestore
<1>11. CASE PlanWork \/ PlanRing \/ Retire
  BY <1>0, <1>11 DEF PlanWork, PlanRing, Retire
<1>12. ASSUME NEW k \in Sessions, TrimSegment(k) \/ EndTrim(k) PROVE kv' = kv
  BY <1>12 DEF TrimSegment, EndTrim
<1>13. ASSUME NEW k \in Sessions, StartTrim(k) PROVE KvOk'
  <2> DEFINE g == [kv[k] EXCEPT !.depth = 1]
  <2>1. kv \in [Sessions -> Caches] /\ kv[k] \in Caches /\ 1 \in 0..MaxSegs
    BY ArenaAssumption DEF KvOk, ArenaAssumption
  <2>2. g \in Caches /\ g.at = kv[k].at
    BY <2>1 DEF Caches
  <2>3. kv' = [kv EXCEPT ![k] = g] /\ kv[k].depth > 1
    BY <1>13 DEF StartTrim
  <2> HIDE DEF g
  <2>4. kv' \in [Sessions -> Caches] /\ kv'[k] = g /\ \A l \in Sessions : l # k => kv'[l] = kv[l]
    BY <2>1, <2>2, <2>3
  <2>5. \A l \in Sessions : kv'[l].at = kv[l].at
    BY <2>2, <2>4
  <2>6. kv[k].at # <<>>
    BY <2>3 DEF KvOk
  <2>7. \A l \in Sessions : kv'[l].at = <<>> => kv'[l].depth = 0
    BY <2>4, <2>5, <2>6 DEF KvOk
  <2> QED
    BY <2>4, <2>5, <2>7, KvFewer
<1>14. CASE UNCHANGED vars
  BY <1>0, <1>14 DEF vars
<1> QED
  BY <1>0, <1>1, <1>2, <1>3, <1>5, <1>6, <1>7, <1>8, <1>9, <1>10, <1>11, <1>12, <1>13, <1>14 DEF Next
-----------------------------------------------------------------------------
(* The gate's holder.                                                      *)

\* Having no goal.
LEMMA NoGoalIs ==
  /\ NoGoal \in Goals /\ NoGoal.class = "none" /\ NoGoal.owner = Nobody
  /\ Nobody \notin Sessions
BY ArenaAssumption DEF ArenaAssumption, NoGoal, Goals

\* The settled plan: its victims are the experts it overlaps.
LEMMA SettleIs ==
  ASSUME NEW R, Settle(R), LiveOk
  PROVE  \/ /\ gate' = "retire" /\ goal' = goal /\ plan'.ranges = R
            /\ \A i : i \in plan'.victims <=>
                  \E e \in live : /\ e.class = "Expert" /\ e.owner = i
                                  /\ \E r \in R : Overlap(e.r, r)
            /\ plan'.victims \subseteq Directory
            /\ R \in SUBSET Cuts => plan' \in Plans
         \/ gate' = "open" /\ goal' = NoGoal /\ plan' = plan
<1> DEFINE V == {a.owner : a \in {e \in Experts : \E r \in R : Overlap(e.r, r)}}
<1>1. \A i : i \in V <=> \E e \in live : /\ e.class = "Expert" /\ e.owner = i
                                         /\ \E r \in R : Overlap(e.r, r)
  BY DEF Experts
<1>2. V \subseteq Directory
  BY <1>1 DEF LiveOk, Proper
<1> HIDE DEF V
<1>3. \/ gate' = "retire" /\ goal' = goal /\ plan' = [ranges |-> R, victims |-> V]
      \/ gate' = "open" /\ goal' = NoGoal /\ plan' = plan
  BY DEF Settle, V
<1> QED
  BY <1>1, <1>2, <1>3 DEF Plans

\* The ring to plan for is no wider than the room there is.
LEMMA RingSize ==
  ASSUME NEW room \in Nat
  PROVE  Max({0} \cup {m \in RingSizes : m <= room}) \in Nat
<1> DEFINE S == {0} \cup {m \in RingSizes : m <= room}
<1>1. S \in SUBSET (0..room) /\ S # {}
  <2>1. \A m \in RingSizes : m \in Nat
    BY ArenaAssumption DEF ArenaAssumption
  <2>2. \A m \in S : m \in 0..room
    BY <2>1
  <2> QED
    BY <2>2
<1>2. Max(S) \in S
  <2> HIDE DEF S
  <2> QED
    BY <1>1, MaxIn
<1> QED
  BY <1>1, <1>2

\* What a planner that goes on has chosen: ranges of the shards, clear of
\* each other and of everybody but experts.
Chosen(R) ==
    /\ R \in SUBSET Cuts /\ Apart(R) /\ Sharded(R)
    /\ \A r \in R, a \in live : a.class # "Expert" => ~Overlap(a.r, r)

\* A work claim is given up, or planned above the floor over experts only.
LEMMA WorkChosen ==
  ASSUME LiveOk, CtlOk, PlanWork
  PROVE  \/ gate' = "open" /\ goal' = NoGoal /\ plan' = plan
         \/ \E R : Settle(R) /\ Chosen(R) /\ \A r \in R : FloorTo <= r.from
<1>0. FloorTo \in Nat /\ Total \in Nat /\ FloorTo <= Total
  BY ArenaAssumption DEF ArenaAssumption
<1> DEFINE G(P) == Gaps(Corridor(FloorTo, Total), Others \cup Pinned(P))
<1>1. PICK P \in Pins : IF Fitting(G(P), goal.size) # {} THEN Settle({HighFit(G(P), goal.size)})
                                                         ELSE GiveUp
  BY DEF PlanWork
<1>2. CASE Fitting(G(P), goal.size) = {}
  BY <1>1, <1>2 DEF GiveUp
<1>3. CASE Fitting(G(P), goal.size) # {}
  <2> DEFINE r == HighFit(G(P), goal.size)
             Q == Others \cup Pinned(P)
  <2>1. G(P) \in SUBSET Cuts
    BY GapIs
  <2>2. goal.size \in Nat \ {0}
    BY DEF PlanWork, CtlOk
  <2>3. r \in Cuts /\ \E g \in G(P) : Within(r, g)
    <3> HIDE DEF G
    <3> QED
      BY <1>3, <2>1, <2>2, HighFitIn
  <2>4. Q \in SUBSET Cuts
    BY BlockersAre
  <2>5. /\ FloorTo <= r.from /\ \E s \in Shards : Within(r, s)
        /\ \A b \in Q : ~Overlap(r, b) /\ ~Overlap(b, r)
    <3>1. PICK g \in G(P) : Within(r, g)
      BY <2>3
    <3>2. g \in Gaps(Corridor(FloorTo, Total), Q)
      OBVIOUS
    <3> HIDE DEF Q, r, G
    <3> QED
      BY <3>1, <3>2, <2>3, <2>4, <1>0, ChosenInGaps
  <2>6. \A a \in live : a.class # "Expert" => a.r \in Q
    BY BlockersAre
  <2>7. Settle({r})
    BY <1>1, <1>3
  <2> HIDE DEF r, Q
  <2>8. Chosen({r})
    BY <2>3, <2>5, <2>6 DEF Chosen, Apart, Sharded
  <2> QED
    BY <2>5, <2>7, <2>8
<1> QED
  BY <1>2, <1>3

\* A prefill ring is given up, or planned over experts only.
LEMMA RingChosen ==
  ASSUME LiveOk, CtlOk, PlanRing
  PROVE  \/ gate' = "open" /\ goal' = NoGoal /\ plan' = plan
         \/ \E R : Settle(R) /\ Chosen(R)
<1> DEFINE G(x) == Gaps(Corridor(0, Total - x), Others)
           room(x) == Cardinality(CellsIn(G(x)))
           size(x) == Max({0} \cup {m \in RingSizes : m <= room(x)})
<1>1. PICK x \in RingReserves :
          \/ size(x) = 0 /\ GiveUp
          \/ size(x) > 0 /\ Fitting(G(x), size(x)) # {} /\ Settle({LowFit(G(x), size(x))})
          \/ size(x) > 0 /\ \E R \in Splits(G(x), size(x)) : Settle(R)
  BY DEF PlanRing
<1> DEFINE y == Total - x
           n == size(x)
           H == G(x)
<1>0. /\ Total \in Nat /\ y \in Nat /\ y <= Total /\ 0 <= Total
      /\ \A b \in Others : b \in Cuts
  <2>1. /\ Total \in Nat /\ x \in Nat /\ x <= Total
    BY ArenaAssumption DEF ArenaAssumption
  <2> QED
    BY <2>1, BlockersAre
<1>2. H = Gaps(Corridor(0, y), Others) /\ H \in SUBSET Cuts
  BY GapIs
<1>3. n \in Nat
  <2>1. Cardinality(CellsIn(H)) \in Nat
    <3> HIDE DEF H
    <3> QED
      BY <1>2, CellsFinite
  <2>2. n = Max({0} \cup {m \in RingSizes : m <= Cardinality(CellsIn(H))})
    OBVIOUS
  <2> HIDE DEF n, H
  <2> QED
    BY <2>1, <2>2, RingSize
<1>4. \/ GiveUp
      \/ n > 0 /\ Fitting(H, n) # {} /\ Settle({LowFit(H, n)})
      \/ n > 0 /\ \E R \in Splits(H, n) : Settle(R)
  BY <1>1
<1> HIDE DEF G, room, size, n, H, y
<1>5. ASSUME NEW r \in Cuts, NEW g \in H, Within(r, g)
      PROVE  /\ \E s \in Shards : Within(r, s)
             /\ \A a \in live : a.class # "Expert" => ~Overlap(a.r, r)
  <2>1. Others \in SUBSET Cuts /\ g \in Gaps(Corridor(0, y), Others) /\ 0 \in Nat
    BY <1>0, <1>2
  <2>2. (\E s \in Shards : Within(r, s)) /\ \A b \in Others : ~Overlap(b, r)
    BY <2>1, <1>0, <1>5, ChosenInGaps
  <2> QED
    BY <2>2, BlockersAre
<1>6. CASE GiveUp
  BY <1>6 DEF GiveUp
<1>7. CASE n > 0 /\ Fitting(H, n) # {} /\ Settle({LowFit(H, n)})
  <2> DEFINE r == LowFit(H, n)
  <2>1. r \in Cuts /\ \E g \in H : Within(r, g)
    BY <1>2, <1>3, <1>7, LowFitIn
  <2> HIDE DEF r
  <2>2. Chosen({r})
    BY <2>1, <1>5 DEF Chosen, Apart, Sharded
  <2> QED
    BY <2>2, <1>7 DEF r
<1>8. CASE n > 0 /\ \E R \in Splits(H, n) : Settle(R)
  <2>1. PICK R \in Splits(H, n) : Settle(R)
    BY <1>8
  <2>2. \A g, h \in H : g # h => ~Overlap(g, h)
    <3>1. Others \in SUBSET Cuts /\ 0 \in Nat
      BY <1>0
    <3> QED
      BY <3>1, <1>0, <1>2, CorridorGapsApart
  <2>3. R \subseteq Cuts /\ Apart(R) /\ \A r \in R : \E g \in H : Within(r, g)
    BY <2>1, <2>2, <1>2, <1>3, SplitsIn
  <2>4. Chosen(R)
    BY <2>3, <1>5 DEF Chosen, Sharded
  <2> QED
    BY <2>1, <2>4
<1> QED
  BY <1>4, <1>6, <1>7, <1>8

\* A session's growth is given up, or planned at its own frozen coordinates.
LEMMA GrowChosen ==
  ASSUME LiveOk, KvOk, CtlOk, NEW k \in Sessions, PlanGrow(k)
  PROVE  \/ gate' = "open" /\ goal' = NoGoal /\ plan' = plan
         \/ \E R : /\ Settle(R) /\ Chosen(R) /\ goal.owner = k /\ kv[k].at # <<>>
                   /\ R = {kv[k].at[i] : i \in (kv[k].depth + 1)..goal.size}
                   /\ \A r \in R : r.to <= FloorFrom
<1> DEFINE R == {kv[k].at[i] : i \in (kv[k].depth + 1)..goal.size}
<1>1. goal.class = "KvCache" /\ goal.owner = k /\ kv[k].at # <<>>
  BY DEF PlanGrow
<1>2. PICK P \in Pins : IF \A r \in R, b \in Others \cup Pinned(P) : ~Overlap(r, b)
                          THEN Settle(R) ELSE GiveUp
  BY DEF PlanGrow
<1>3. CASE GiveUp
  BY <1>3 DEF GiveUp
<1>4. CASE Settle(R) /\ \A r \in R, b \in Others \cup Pinned(P) : ~Overlap(r, b)
  <2>1. kv[k].at \in Layouts /\ kv[k].depth \in 0..MaxSegs /\ MaxSegs \in Nat
    BY <1>1, CacheIs, ArenaAssumption DEF ArenaAssumption
  <2>2. goal.size \in (kv[k].depth + 1)..MaxSegs
    BY <1>1 DEF CtlOk
  <2>3. ASSUME NEW i \in (kv[k].depth + 1)..goal.size
        PROVE  i \in 1..MaxSegs /\ kv[k].at[i] \in Cuts
    <3>1. i \in 1..MaxSegs
      BY <2>1, <2>2
    <3> QED
      BY <3>1, <2>1, LayoutIs
  <2>4. ASSUME NEW i \in 1..MaxSegs
        PROVE  /\ kv[k].at[i].to <= FloorFrom /\ \E s \in Shards : Within(kv[k].at[i], s)
               /\ \A j \in 1..MaxSegs : i # j => ~Overlap(kv[k].at[i], kv[k].at[j])
    BY <1>1 DEF KvOk
  <2>5. R \in SUBSET Cuts /\ Sharded(R) /\ \A r \in R : r.to <= FloorFrom
    BY <2>3, <2>4 DEF Sharded
  <2>6. Apart(R)
    BY <2>3, <2>4 DEF Apart
  <2>7. \A r \in R, a \in live : a.class # "Expert" => ~Overlap(a.r, r)
    <3>1. \A a \in live : a.class # "Expert" => a.r \in Others
      BY BlockersAre
    <3> HIDE DEF R
    <3> QED
      BY <3>1, <1>4 DEF Overlap
  <2>8. Chosen(R)
    <3> HIDE DEF R
    <3> QED
      BY <2>5, <2>6, <2>7 DEF Chosen
  <2> QED
    BY <1>1, <1>4, <2>5, <2>8
<1> QED
  BY <1>2, <1>3, <1>4
-----------------------------------------------------------------------------
(* CtlOk, step by step.                                                    *)

\* The gate is open and no goal is set.
LEMMA CtlInit ==
  ASSUME Init
  PROVE  CtlOk
<1>1. 1 \in 1..(Cardinality(Directory) + 1)
  BY ArenaAssumption, FS_CardinalityType DEF ArenaAssumption
<1>2. NoPlan \in Plans
  BY DEF NoPlan, Plans
<1> QED
  BY <1>1, <1>2, NoGoalIs DEF Init, CtlOk

\* A step that leaves the gate's holder, its goal and its plan alone.
LEMMA CtlSame ==
  ASSUME CtlOk, UNCHANGED <<mode, gate, cursor, goal, plan>>, changed' \in BOOLEAN,
         goal.class \in {"KvCache", "Trim"} =>
            /\ kv'[goal.owner].closing = kv[goal.owner].closing
            /\ kv'[goal.owner].depth = kv[goal.owner].depth
  PROVE  CtlOk'
BY DEF CtlOk

\* The gate is given back.
LEMMA CtlOpen ==
  ASSUME CtlOk, gate' = "open", goal' = NoGoal, plan' \in Plans,
         changed' \in BOOLEAN, mode' \in {"decode", "prefill"}, cursor' = 1
  PROVE  CtlOk'
<1>1. 1 \in 1..(Cardinality(Directory) + 1)
  BY ArenaAssumption, FS_CardinalityType DEF ArenaAssumption
<1> QED
  BY <1>1, NoGoalIs DEF CtlOk

\* A planner either gives up or settles.
LEMMA CtlPlanned ==
  ASSUME LiveOk, CtlOk, gate = "plan", UNCHANGED <<changed, mode, kv, cursor>>,
         \/ gate' = "open" /\ goal' = NoGoal /\ plan' = plan
         \/ \E R \in SUBSET Cuts : Settle(R)
  PROVE  CtlOk'
<1>1. cursor' = 1 /\ changed' \in BOOLEAN /\ mode' \in {"decode", "prefill"} /\ plan \in Plans
  BY DEF CtlOk
<1>2. CASE gate' = "open" /\ goal' = NoGoal /\ plan' = plan
  BY <1>1, <1>2, CtlOpen
<1>3. CASE gate' = "retire" /\ goal' = goal /\ plan' \in Plans
  BY <1>3 DEF CtlOk
<1>4. ASSUME NEW R \in SUBSET Cuts, Settle(R)
      PROVE  \/ gate' = "open" /\ goal' = NoGoal /\ plan' = plan
             \/ gate' = "retire" /\ goal' = goal /\ plan' \in Plans
  BY <1>4, SettleIs
<1> QED
  BY <1>2, <1>3, <1>4

\* Who holds the gate, for which goal and in which mode, stays consistent.
LEMMA CtlNext ==
  ASSUME LiveOk, KvOk, CtlOk, [Next]_vars
  PROVE  CtlOk'
<1>1. ASSUME NEW a \in live, GiveBack(a) \/ CloseWork(a) PROVE CtlOk'
  <2>1. changed' \in BOOLEAN
    BY <1>1 DEF GiveBack, CloseWork, CtlOk
  <2> QED
    BY <1>1, <2>1, CtlSame DEF GiveBack, CloseWork
<1>2. ASSUME NEW k \in Sessions, CloseSegment(k) \/ DropReservation(k) PROVE CtlOk'
  <2>1. goal.owner # k
    BY <1>2 DEF CloseSegment, DropReservation
  <2>2. goal.class \in {"KvCache", "Trim"} => goal.owner \in Sessions
    BY DEF CtlOk
  <2>3. \A l \in Sessions : l # k => kv'[l] = kv[l]
    BY <1>2 DEF CloseSegment, DropReservation, KvOk
  <2>4. UNCHANGED <<mode, gate, cursor, goal, plan>> /\ changed' \in BOOLEAN
    BY <1>2 DEF CloseSegment, DropReservation, CtlOk
  <2> QED
    BY <2>1, <2>2, <2>3, <2>4, CtlSame
<1>3. ASSUME NEW k \in Sessions, ReserveKv(k) PROVE CtlOk'
  <2>1. UNCHANGED <<changed, mode, cursor>> /\ gate = "plan"
    BY <1>3 DEF ReserveKv
  <2>2. CASE UNCHANGED <<gate, goal, plan>> /\ kv' = [kv EXCEPT ![k].at = kv'[k].at]
    <3>1. kv[k] \in Caches /\ kv \in [Sessions -> Caches]
      BY DEF KvOk
    <3>2. \A l \in Sessions : /\ kv'[l].closing = kv[l].closing
                              /\ kv'[l].depth = kv[l].depth
      BY <2>2, <3>1 DEF Caches
    <3>3. goal.class \in {"KvCache", "Trim"} => goal.owner \in Sessions
      BY DEF CtlOk
    <3>4. changed' \in BOOLEAN
      BY <2>1 DEF CtlOk
    <3> QED
      BY <2>1, <2>2, <3>2, <3>3, <3>4, CtlSame
  <2>3. CASE GiveUp /\ kv' = kv
    BY <2>1, <2>3, CtlPlanned DEF GiveUp
  <2> QED
    BY <1>3, <2>2, <2>3 DEF ReserveKv
<1>4. ASSUME NEW k \in Sessions, PlanGrow(k) PROVE CtlOk'
  <2>1. gate = "plan" /\ UNCHANGED <<changed, mode, kv, cursor>>
    BY <1>4 DEF PlanGrow
  <2> QED
    BY <2>1, <1>4, GrowChosen, CtlPlanned DEF Chosen
<1>5. ASSUME NEW n \in WorkSizes, StartWork(n) PROVE CtlOk'
  <2>1. n \in Nat \ {0}
    BY ArenaAssumption DEF ArenaAssumption
  <2>2. goal' = [class |-> "LlmRuntime", owner |-> Nobody, size |-> n] /\ gate' = "plan"
        /\ UNCHANGED <<changed, mode, cursor, plan>> /\ gate = "open"
    BY <1>5 DEF StartWork
  <2>3. goal' \in Goals /\ goal'.class = "LlmRuntime" /\ goal'.owner = Nobody /\ goal'.size = n
        /\ goal' # NoGoal
    BY <2>1, <2>2 DEF Goals, NoGoal
  <2> QED
    BY <2>1, <2>2, <2>3, NoGoalIs DEF CtlOk
<1>6. ASSUME NEW k \in Sessions, NEW n \in 1..MaxSegs, StartGrow(k, n) PROVE CtlOk'
  <2>1. /\ goal' = [class |-> "KvCache", owner |-> k, size |-> n] /\ gate = "open"
        /\ ~kv[k].closing /\ n > kv[k].depth /\ UNCHANGED <<changed, kv, cursor, plan>>
    BY <1>6 DEF StartGrow
  <2>2. n \in Nat /\ n \in (kv[k].depth + 1)..MaxSegs
    <3>1. kv[k].depth \in Nat /\ MaxSegs \in Nat
      BY CacheIs, ArenaAssumption DEF ArenaAssumption
    <3> QED
      BY <3>1, <2>1
  <2>3. goal' \in Goals /\ goal'.class = "KvCache" /\ goal'.owner = k /\ goal'.size = n
        /\ goal' # NoGoal
    BY <2>1, <2>2 DEF Goals, NoGoal
  <2>4. mode' = "decode" /\ gate' \in {"restore", "plan"}
    BY <1>6, <2>3 DEF StartGrow, EnterDecode
  <2> QED
    BY <2>1, <2>2, <2>3, <2>4, NoGoalIs DEF CtlOk
<1>7. CASE StartDecode
  <2>1. /\ goal' = NoGoal /\ mode' = "decode" /\ gate' \in {"restore", "open"}
        /\ UNCHANGED <<changed, cursor, plan>> /\ gate = "open"
    BY <1>7 DEF StartDecode, EnterDecode
  <2> QED
    BY <2>1, NoGoalIs DEF CtlOk
<1>8. CASE StartRing
  <2>1. /\ goal' = [class |-> "Prefill", owner |-> Nobody, size |-> 0] /\ gate = "open"
        /\ gate' \in {"restore", "plan"} /\ mode' = mode /\ mode = "decode"
        /\ UNCHANGED <<changed, cursor, plan>>
    BY <1>8 DEF StartRing
  <2>2. goal' \in Goals /\ goal'.class = "Prefill" /\ goal'.owner = Nobody /\ goal' # NoGoal
    BY <2>1 DEF Goals, NoGoal
  <2> QED
    BY <2>1, <2>2, NoGoalIs DEF CtlOk
<1>9. CASE StartRestore
  BY <1>9 DEF StartRestore, CtlOk
<1>10. CASE RestoreSlot
  <2>1. cursor \in Directory /\ cursor' = cursor + 1 /\ gate = "restore"
        /\ UNCHANGED <<changed, mode, kv, gate, goal, plan>>
    BY <1>10 DEF RestoreSlot
  <2>2. cursor' \in 1..(Cardinality(Directory) + 1)
    <3>1. Cardinality(Directory) \in Nat
      BY ArenaAssumption, FS_CardinalityType DEF ArenaAssumption
    <3>2. cursor \in 1..Cardinality(Directory)
      BY <2>1, ArenaAssumption DEF ArenaAssumption
    <3> QED
      BY <3>1, <3>2, <2>1
  <2> QED
    BY <2>1, <2>2 DEF CtlOk
<1>11. CASE EndRestore
  <2>1. /\ changed' = FALSE /\ cursor' = 1 /\ gate' = (IF goal = NoGoal THEN "open" ELSE "plan")
        /\ gate = "restore" /\ UNCHANGED <<mode, kv, goal, plan>>
    BY <1>11 DEF EndRestore
  <2>2. 1 \in 1..(Cardinality(Directory) + 1)
    BY ArenaAssumption, FS_CardinalityType DEF ArenaAssumption
  <2> QED
    BY <2>1, <2>2 DEF CtlOk
<1>12. CASE PlanWork
  <2>1. gate = "plan" /\ UNCHANGED <<changed, mode, kv, cursor>>
    BY <1>12 DEF PlanWork
  <2> QED
    BY <2>1, <1>12, WorkChosen, CtlPlanned DEF Chosen
<1>13. CASE PlanRing
  <2>1. gate = "plan" /\ UNCHANGED <<changed, mode, kv, cursor>>
    BY <1>13 DEF PlanRing
  <2> QED
    BY <2>1, <1>13, RingChosen, CtlPlanned DEF Chosen
<1>14. CASE Retire
  <2>1. UNCHANGED <<changed, mode, kv, gate, cursor, goal>> /\ plan' \in Plans
    <3>1. plan' = [plan EXCEPT !.victims = @ \ {Min(plan.victims)}]
      BY <1>14 DEF Retire
    <3>2. plan \in Plans
      BY DEF CtlOk
    <3>3. plan' \in Plans
      BY <3>1, <3>2 DEF Plans
    <3> QED
      BY <3>3, <1>14 DEF Retire
  <2> QED
    BY <2>1 DEF CtlOk
<1>15. CASE Commit
  <2>1. /\ changed' = FALSE /\ goal' = NoGoal /\ plan' = NoPlan /\ cursor' = cursor
        /\ gate = "retire" /\ gate' \in {"open", "restore"} /\ mode' \in {"decode", "prefill"}
    BY <1>15 DEF Commit, CtlOk
  <2>2. NoPlan \in Plans
    BY DEF NoPlan, Plans
  <2> QED
    BY <2>1, <2>2, NoGoalIs DEF CtlOk
<1>16. ASSUME NEW k \in Sessions, StartTrim(k) PROVE CtlOk'
  <2>1. /\ goal' = [class |-> "Trim", owner |-> k, size |-> 1] /\ gate = "open" /\ gate' = "trim"
        /\ UNCHANGED <<changed, mode, cursor, plan>>
    BY <1>16 DEF StartTrim
  <2>2. goal' \in Goals /\ goal'.class = "Trim" /\ goal'.owner = k /\ goal'.size = 1 /\ goal' # NoGoal
    BY <2>1 DEF Goals, NoGoal
  <2>3. ~kv'[k].closing /\ kv'[k].depth = 1
    <3> DEFINE g == [kv[k] EXCEPT !.depth = 1]
    <3>1. kv[k] \in Caches /\ kv \in [Sessions -> Caches]
      BY DEF KvOk
    <3>2. g.depth = 1 /\ g.closing = kv[k].closing
      BY <3>1 DEF Caches
    <3>3. kv' = [kv EXCEPT ![k] = g] /\ ~kv[k].closing
      BY <1>16 DEF StartTrim
    <3> HIDE DEF g
    <3> QED
      BY <3>1, <3>2, <3>3
  <2> QED
    BY <2>1, <2>2, <2>3, NoGoalIs DEF CtlOk
<1>17. ASSUME NEW k \in Sessions, TrimSegment(k) PROVE CtlOk'
  <2>1. UNCHANGED <<changed, mode, kv, gate, cursor, goal, plan>>
    BY <1>17 DEF TrimSegment
  <2> QED
    BY <2>1 DEF CtlOk
<1>18. ASSUME NEW k \in Sessions, EndTrim(k) PROVE CtlOk'
  <2>1. /\ gate = "trim" /\ gate' = "open" /\ goal' = NoGoal
        /\ UNCHANGED <<changed, mode, cursor, plan>>
    BY <1>18 DEF EndTrim
  <2>2. cursor = 1 /\ plan \in Plans /\ changed \in BOOLEAN /\ mode \in {"decode", "prefill"}
    BY <2>1 DEF CtlOk
  <2> QED
    BY <2>1, <2>2, CtlOpen
<1>19. CASE UNCHANGED vars
  BY <1>19 DEF vars, CtlOk
<1> QED
  BY <1>1, <1>2, <1>3, <1>4, <1>5, <1>6, <1>7, <1>8, <1>9, <1>10, <1>11, <1>12, <1>13, <1>14,
     <1>15, <1>16, <1>17, <1>18, <1>19 DEF Next
-----------------------------------------------------------------------------
(* PlanOk, step by step: nobody can invalidate a plan before its commit.    *)

\* A slot of the floor is clear of everything beside the floor.
LEMMA FloorClear ==
  ASSUME NEW i \in FloorSlots, NEW r \in Cuts, r.to <= FloorFrom \/ FloorTo <= r.from
  PROVE  ~Overlap(Slots[i].r, r) /\ ~Overlap(r, Slots[i].r)
<1>1. i \in Directory /\ Within(Slots[i].r, Cut(FloorFrom, FloorTo)) /\ Slots[i].r \in Cuts
  BY SlotRange DEF FloorSlots
<1>2. Cut(FloorFrom, FloorTo).from = FloorFrom /\ Cut(FloorFrom, FloorTo).to = FloorTo
  BY DEF Cut
<1>3. FloorFrom \in Nat /\ FloorTo \in Nat
  BY ArenaAssumption DEF ArenaAssumption
<1>4. FloorFrom <= Slots[i].r.from /\ Slots[i].r.to <= FloorTo
  BY <1>1, <1>2 DEF Within
<1> QED
  BY <1>1, <1>3, <1>4, CutFields DEF Overlap

\* A freshly settled plan.
LEMMA PlanMade ==
  ASSUME LiveOk, CtlOk, gate = "plan", live' = live, kv' = kv,
         \/ gate' = "open" /\ goal' = NoGoal /\ plan' = plan
         \/ \E R : /\ Settle(R) /\ Chosen(R)
                   /\ goal.class # "Prefill" =>
                        \A r \in R : r.to <= FloorFrom \/ FloorTo <= r.from
                   /\ goal.class = "LlmRuntime" => \A r \in R : FloorTo <= r.from
                   /\ goal.class = "KvCache" =>
                        /\ kv[goal.owner].at # <<>>
                        /\ R = {kv[goal.owner].at[i] :
                                  i \in (kv[goal.owner].depth + 1)..goal.size}
  PROVE  PlanOk'
<1>1. CASE gate' = "open"
  BY <1>1 DEF PlanOk
<1>2. ASSUME NEW R, Settle(R), Chosen(R),
             goal.class # "Prefill" => \A r \in R : r.to <= FloorFrom \/ FloorTo <= r.from,
             goal.class = "LlmRuntime" => \A r \in R : FloorTo <= r.from,
             goal.class = "KvCache" =>
                /\ kv[goal.owner].at # <<>>
                /\ R = {kv[goal.owner].at[i] : i \in (kv[goal.owner].depth + 1)..goal.size},
             gate' # "open"
      PROVE  PlanOk'
  <2>1. /\ gate' = "retire" /\ goal' = goal /\ plan'.ranges = R
        /\ \A i : i \in plan'.victims <=>
              \E e \in live : /\ e.class = "Expert" /\ e.owner = i
                              /\ \E r \in R : Overlap(e.r, r)
    BY <1>2, SettleIs
  <2>2. /\ R \in SUBSET Cuts /\ Apart(R) /\ Sharded(R)
        /\ \A r \in R, a \in live : a.class # "Expert" => ~Overlap(a.r, r)
    BY <1>2 DEF Chosen
  <2>3. \A r \in R, a \in live : Overlap(a.r, r) => a.class = "Expert" /\ a.owner \in plan'.victims
    BY <2>1, <2>2
  <2>4. goal.class # "Prefill" => plan'.victims \cap FloorSlots = {}
    <3> SUFFICES ASSUME goal.class # "Prefill", NEW i \in plan'.victims, i \in FloorSlots
                 PROVE  FALSE
      OBVIOUS
    <3>1. PICK e \in live : /\ e.class = "Expert" /\ e.owner = i
                            /\ \E r \in R : Overlap(e.r, r)
      BY <2>1
    <3>2. e.r = Slots[i].r
      BY <3>1 DEF LiveOk, Proper
    <3>3. PICK r \in R : Overlap(e.r, r)
      BY <3>1
    <3>4. r \in Cuts /\ (r.to <= FloorFrom \/ FloorTo <= r.from)
      BY <1>2, <2>2
    <3> QED
      BY <3>2, <3>3, <3>4, FloorClear
  <2> QED
    BY <2>1, <2>2, <2>3, <2>4, <1>2 DEF PlanOk
<1> QED
  BY <1>1, <1>2

\* While a plan is committed, the others only drop what they hold, and a
\* victim leaves the list with its slot.
LEMMA PlanShrinks ==
  ASSUME PlanOk, UNCHANGED <<gate, goal>>, plan'.ranges = plan.ranges,
         \A b \in live' : \E a \in live :
            b.r = a.r /\ b.class = a.class /\ b.owner = a.owner /\ (b.held => a.held),
         \A i \in plan.victims : \/ i \in plan'.victims
                                 \/ \A b \in live' : b.class = "Expert" /\ b.owner = i => ~b.held,
         plan'.victims \subseteq plan.victims,
         goal.class = "KvCache" => /\ kv'[goal.owner].at = kv[goal.owner].at
                                   /\ kv'[goal.owner].depth = kv[goal.owner].depth
  PROVE  PlanOk'
<1> SUFFICES ASSUME gate = "retire" PROVE PlanOk'
  BY DEF PlanOk
<1>1. ASSUME NEW r \in plan.ranges, NEW b \in live', Overlap(b.r, r)
      PROVE  b.class = "Expert" /\ (b.owner \in plan'.victims \/ ~b.held)
  <2>1. PICK a \in live : b.r = a.r /\ b.class = a.class /\ b.owner = a.owner /\ (b.held => a.held)
    OBVIOUS
  <2>2. a.class = "Expert" /\ (a.owner \in plan.victims \/ ~a.held)
    BY <1>1, <2>1 DEF PlanOk
  <2> QED
    BY <2>1, <2>2
<1> QED
  BY <1>1 DEF PlanOk

\* Releasing handles.
LEMMA ReleasedShrinks ==
  ASSUME LiveOk, NEW A, live' = Released(A)
  PROVE  \A b \in live' : \E a \in live :
            b.r = a.r /\ b.class = a.class /\ b.owner = a.owner /\ (b.held => a.held)
<1>1. live \subseteq Allocations
  BY DEF LiveOk
<1>2. ASSUME NEW b \in live'
      PROVE  \E a \in live : /\ b.r = a.r /\ b.class = a.class /\ b.owner = a.owner
                             /\ b.held = (a.held /\ a \notin A)
  BY <1>1, ReleasedIs
<1>3. ASSUME NEW b \in live'
      PROVE  \E a \in live :
                b.r = a.r /\ b.class = a.class /\ b.owner = a.owner /\ (b.held => a.held)
  <2>1. PICK a \in live : /\ b.r = a.r /\ b.class = a.class /\ b.owner = a.owner
                          /\ b.held = (a.held /\ a \notin A)
    BY <1>2
  <2>2. b.held => a.held
    BY <2>1
  <2> QED
    BY <2>1, <2>2
<1> QED
  BY <1>3

\* What a plan needs free stays free or retirable until the plan commits.
LEMMA PlanNext ==
  ASSUME LiveOk, KvOk, CtlOk, PlanOk, [Next]_vars
  PROVE  PlanOk'
<1>0. ASSUME gate' # "retire" PROVE PlanOk'
  BY <1>0 DEF PlanOk
<1>1. ASSUME NEW a \in live, GiveBack(a) PROVE PlanOk'
  <2>1. UNCHANGED <<gate, goal, plan, kv>> /\ live' = live \ {a}
    BY <1>1 DEF GiveBack
  <2>2. \A b \in live' : b \in live
    BY <2>1
  <2> QED
    BY <2>1, <2>2, PlanShrinks
<1>2. ASSUME NEW a \in live, CloseWork(a) PROVE PlanOk'
  <2>1. UNCHANGED <<gate, goal, plan, kv>> /\ live' = Released({a})
    BY <1>2 DEF CloseWork
  <2>2. \A b \in live' : \E c \in live :
            b.r = c.r /\ b.class = c.class /\ b.owner = c.owner /\ (b.held => c.held)
    BY <2>1, ReleasedShrinks
  <2> QED
    BY <2>1, <2>2, PlanShrinks
<1>3. ASSUME NEW k \in Sessions, CloseSegment(k) \/ DropReservation(k) PROVE PlanOk'
  <2>1. goal.owner # k /\ UNCHANGED <<gate, goal, plan>>
    BY <1>3 DEF CloseSegment, DropReservation
  <2>2. goal.class = "KvCache" => goal.owner \in Sessions
    BY DEF CtlOk
  <2>3. \A l \in Sessions : l # k => kv'[l] = kv[l]
    BY <1>3 DEF CloseSegment, DropReservation, KvOk
  <2>4. \A b \in live' : \E c \in live :
            b.r = c.r /\ b.class = c.class /\ b.owner = c.owner /\ (b.held => c.held)
    <3>1. CASE live' = live
      BY <3>1
    <3>2. ASSUME NEW A, live' = Released(A)
          PROVE  \A b \in live' : \E c \in live :
                     b.r = c.r /\ b.class = c.class /\ b.owner = c.owner /\ (b.held => c.held)
      BY <3>2, ReleasedShrinks
    <3>3. live' = live \/ \E A : live' = Released(A)
      BY <1>3 DEF CloseSegment, DropSegment, DropReservation
    <3> QED
      BY <3>1, <3>2, <3>3
  <2> QED
    BY <2>1, <2>2, <2>3, <2>4, PlanShrinks
<1>4. ASSUME NEW k \in Sessions, ReserveKv(k) PROVE PlanOk'
  <2>1. gate = "plan" /\ gate' \in {"plan", "open"}
    BY <1>4 DEF ReserveKv, GiveUp
  <2> QED
    BY <2>1, <1>0
<1>5. ASSUME NEW k \in Sessions, PlanGrow(k) PROVE PlanOk'
  <2>1. gate = "plan" /\ UNCHANGED <<live, kv>> /\ goal.class = "KvCache"
    BY <1>5 DEF PlanGrow
  <2>2. \/ gate' = "open" /\ goal' = NoGoal /\ plan' = plan
        \/ \E R : /\ Settle(R) /\ Chosen(R) /\ goal.owner = k /\ kv[k].at # <<>>
                  /\ R = {kv[k].at[i] : i \in (kv[k].depth + 1)..goal.size}
                  /\ \A r \in R : r.to <= FloorFrom
    BY <1>5, GrowChosen
  <2> QED
    BY <2>1, <2>2, PlanMade
<1>6. ASSUME NEW n \in WorkSizes, StartWork(n) PROVE PlanOk'
  BY <1>0, <1>6 DEF StartWork
<1>7. ASSUME NEW k \in Sessions, NEW n \in 1..MaxSegs, StartGrow(k, n) PROVE PlanOk'
  BY <1>0, <1>7 DEF StartGrow, EnterDecode
<1>8. CASE StartDecode \/ StartRing \/ StartRestore \/ RestoreSlot \/ EndRestore
  BY <1>0, <1>8 DEF StartDecode, EnterDecode, StartRing, StartRestore, RestoreSlot, EndRestore
<1>9. CASE PlanWork
  <2>1. gate = "plan" /\ UNCHANGED <<live, kv>> /\ goal.class = "LlmRuntime"
    BY <1>9 DEF PlanWork
  <2> QED
    BY <2>1, <1>9, WorkChosen, PlanMade
<1>10. CASE PlanRing
  <2>1. gate = "plan" /\ UNCHANGED <<live, kv>> /\ goal.class = "Prefill"
    BY <1>10 DEF PlanRing
  <2> QED
    BY <2>1, <1>10, RingChosen, PlanMade
<1>11. CASE Retire
  <2> DEFINE i == Min(plan.victims)
             A == {a \in Experts : a.owner = i}
  <2>1. UNCHANGED <<gate, goal, kv>> /\ live' = Released(A)
        /\ plan' = [plan EXCEPT !.victims = @ \ {i}]
    BY <1>11 DEF Retire
  <2> HIDE DEF i
  <2>2. plan'.ranges = plan.ranges /\ plan'.victims = plan.victims \ {i}
    BY <2>1 DEF CtlOk, Plans
  <2>3. \A b \in live' : b.class = "Expert" /\ b.owner = i => ~b.held
    <3> TAKE b \in live'
    <3>1. PICK a \in live : /\ b.class = a.class /\ b.owner = a.owner
                            /\ b.held = (a.held /\ a \notin A)
      BY <2>1, ReleasedIs DEF LiveOk
    <3> QED
      BY <3>1 DEF Experts
  <2> HIDE DEF A
  <2>4. \A b \in live' : \E c \in live :
            b.r = c.r /\ b.class = c.class /\ b.owner = c.owner /\ (b.held => c.held)
    BY <2>1, ReleasedShrinks
  <2> QED
    BY <2>1, <2>2, <2>3, <2>4, PlanShrinks
<1>12. CASE Commit
  BY <1>0, <1>12 DEF Commit
<1>13. ASSUME NEW k \in Sessions, StartTrim(k) \/ TrimSegment(k) \/ EndTrim(k) PROVE PlanOk'
  BY <1>0, <1>13 DEF StartTrim, TrimSegment, EndTrim
<1>14. CASE UNCHANGED vars
  BY <1>14 DEF vars, PlanOk
<1> QED
  BY <1>1, <1>2, <1>3, <1>4, <1>5, <1>6, <1>7, <1>8, <1>9, <1>10, <1>11, <1>12, <1>13, <1>14 DEF Next

\* Once the victims have returned their slots, the ranges are free.
LEMMA PlanIsClaimable ==
  ASSUME LiveOk, Tile, CtlOk, PlanOk, gate = "retire", Drained, plan.victims = {}
  PROVE  Claimable(plan.ranges)
<1>1. \A r \in plan.ranges : r \in Cuts
  BY DEF CtlOk, Plans
<1>2. ASSUME NEW r \in plan.ranges PROVE \E f \in free : Within(r, f)
  <2>1. \A a \in live : ~Overlap(a.r, r)
    BY DEF PlanOk, Drained
  <2>2. \A p \in Ranges(live) : ~Overlap(p, r)
    BY <2>1 DEF Ranges
  <2>3. PICK s \in Shards : Within(r, s)
    BY DEF PlanOk, Sharded
  <2>4. r \in Cuts
    BY <1>1
  <2>5. Tiling(free, Ranges(live))
    BY DEF Tile
  <2> QED
    BY <2>2, <2>3, <2>4, <2>5, ClearIsFree
<1>3. \A r, q \in plan.ranges : r # q => ~Overlap(r, q)
  BY DEF PlanOk, Apart
<1> QED
  BY <1>2, <1>3 DEF Claimable
-----------------------------------------------------------------------------
(* KvLive, step by step.                                                   *)

\* A step that keeps a session's coordinates and its committed segments, and
\* gives it no new ones.
LEMMA SessionKept ==
  ASSUME NEW k \in Sessions, SessionLive(k), Trimming(k) => Trimming(k)',
         /\ kv'[k].at = kv[k].at /\ kv'[k].depth = kv[k].depth
         /\ kv'[k].closing = kv[k].closing,
         \A b \in live' : b.class = "KvCache" /\ b.owner = k =>
            \E a \in live : /\ b.r = a.r /\ b.class = a.class /\ b.owner = a.owner
                            /\ (b.held => a.held),
         \A a \in live, j \in 1..kv[k].depth :
            a.class = "KvCache" /\ a.owner = k /\ a.held /\ a.r = kv[k].at[j] =>
               \E b \in live' : b.r = a.r /\ b.class = a.class /\ b.owner = a.owner /\ b.held
  PROVE  SessionLive(k)'
<1>1. ASSUME NEW b \in live', b.class = "KvCache", b.owner = k
      PROVE  /\ kv[k].at # <<>>
             /\ \E j \in 1..MaxSegs : /\ b.r = kv[k].at[j]
                                      /\ b.held => j <= kv[k].depth \/ Trimming(k)'
  <2>1. PICK a \in live : /\ b.r = a.r /\ b.class = a.class /\ b.owner = a.owner
                          /\ (b.held => a.held)
    BY <1>1
  <2>2. kv[k].at # <<>>
    BY <1>1, <2>1 DEF SessionLive
  <2>3. PICK j \in 1..MaxSegs : a.r = kv[k].at[j] /\ (a.held => j <= kv[k].depth \/ Trimming(k))
    BY <1>1, <2>1 DEF SessionLive
  <2>4. b.r = kv[k].at[j] /\ (b.held => j <= kv[k].depth \/ Trimming(k)')
    BY <2>1, <2>3
  <2> QED
    BY <2>2, <2>4
<1>2. ASSUME ~kv[k].closing, NEW j \in 1..kv[k].depth
      PROVE  \E b \in live' : b.class = "KvCache" /\ b.owner = k /\ b.r = kv[k].at[j] /\ b.held
  <2>1. PICK a \in live : a.class = "KvCache" /\ a.owner = k /\ a.r = kv[k].at[j] /\ a.held
    BY <1>2 DEF SessionLive
  <2>2. PICK b \in live' : b.r = a.r /\ b.class = a.class /\ b.owner = a.owner /\ b.held
    BY <2>1
  <2> QED
    BY <2>1, <2>2
<1>3. \A b \in live' : b.class = "KvCache" /\ b.owner = k =>
        /\ kv'[k].at # <<>>
        /\ \E j \in 1..MaxSegs : /\ b.r = kv'[k].at[j]
                                 /\ b.held => j <= kv'[k].depth \/ Trimming(k)'
  BY <1>1
<1>4. ~kv'[k].closing => \A j \in 1..kv'[k].depth : \E b \in live' :
        b.class = "KvCache" /\ b.owner = k /\ b.r = kv'[k].at[j] /\ b.held
  BY <1>2
<1> QED
  BY <1>3, <1>4 DEF SessionLive

\* Releasing what is not a session's committed segment.
LEMMA SessionReleased ==
  ASSUME LiveOk, NEW k \in Sessions, SessionLive(k), NEW A, live' = Released(A),
         Trimming(k) => Trimming(k)',
         /\ kv'[k].at = kv[k].at /\ kv'[k].depth = kv[k].depth
         /\ kv'[k].closing = kv[k].closing,
         \A a \in A, j \in 1..kv[k].depth :
            ~(a.class = "KvCache" /\ a.owner = k /\ a.r = kv[k].at[j])
  PROVE  SessionLive(k)'
<1>0. live \subseteq Allocations
  BY DEF LiveOk
<1>1. ASSUME NEW b \in live', b.class = "KvCache", b.owner = k
      PROVE  \E a \in live : /\ b.r = a.r /\ b.class = a.class /\ b.owner = a.owner
                             /\ (b.held => a.held)
  <2>1. PICK a \in live : /\ b.r = a.r /\ b.class = a.class /\ b.owner = a.owner
                          /\ b.held = (a.held /\ a \notin A)
    BY <1>0, ReleasedIs
  <2>2. b.held => a.held
    BY <2>1
  <2> QED
    BY <2>1, <2>2
<1>2. ASSUME NEW a \in live, NEW j \in 1..kv[k].depth,
             a.class = "KvCache", a.owner = k, a.held, a.r = kv[k].at[j]
      PROVE  \E b \in live' : b.r = a.r /\ b.class = a.class /\ b.owner = a.owner /\ b.held
  <2>1. a \notin A
    BY <1>2
  <2>2. PICK b \in live' : /\ b.r = a.r /\ b.class = a.class /\ b.owner = a.owner
                           /\ b.held = (a.held /\ a \notin A)
    BY <1>0, ReleasedIs
  <2>3. b.held
    BY <1>2, <2>1, <2>2
  <2> QED
    BY <2>2, <2>3
<1> QED
  BY <1>1, <1>2, SessionKept

\* Adding records of other owners or classes leaves the session alone.
LEMMA SessionBeside ==
  ASSUME NEW k \in Sessions, SessionLive(k), NEW B, live' = live \cup B,
         Trimming(k) => Trimming(k)',
         /\ kv'[k].at = kv[k].at /\ kv'[k].depth = kv[k].depth
         /\ kv'[k].closing = kv[k].closing,
         \A b \in B : ~(b.class = "KvCache" /\ b.owner = k)
  PROVE  SessionLive(k)'
<1>1. ASSUME NEW b \in live', b.class = "KvCache", b.owner = k
      PROVE  \E a \in live : /\ b.r = a.r /\ b.class = a.class /\ b.owner = a.owner
                             /\ (b.held => a.held)
  BY <1>1
<1>2. ASSUME NEW a \in live, NEW j \in 1..kv[k].depth,
             a.class = "KvCache", a.owner = k, a.held, a.r = kv[k].at[j]
      PROVE  \E b \in live' : b.r = a.r /\ b.class = a.class /\ b.owner = a.owner /\ b.held
  BY <1>2
<1> QED
  BY <1>1, <1>2, SessionKept

\* A committed growth: the new segments are the next coordinates.
LEMMA SessionGrown ==
  ASSUME LiveOk, KvOk, CtlOk, PlanOk, KvLive, Commit, Claimable(plan.ranges),
         goal.class = "KvCache"
  PROVE  KvLive'
<1>0. PICK k \in Sessions : k = goal.owner
  BY DEF CtlOk
<1> DEFINE B == Batch(plan.ranges, goal.class, goal.owner)
<1>0a. ~Trimming(k) /\ \A l \in Sessions : ~Trimming(l)
  BY DEF Commit, Trimming
<1>1. /\ k \in Sessions /\ gate = "retire" /\ kv' = [kv EXCEPT ![k].depth = goal.size]
      /\ live' = live \cup B
  BY <1>0 DEF Commit, CtlOk
<1>2. /\ kv[k].at # <<>>
      /\ plan.ranges = {kv[k].at[i] : i \in (kv[k].depth + 1)..goal.size}
  BY <1>0, <1>1 DEF PlanOk
<1>3. /\ kv[k].depth \in Nat /\ goal.size \in Nat /\ kv[k].depth < goal.size
      /\ goal.size <= MaxSegs /\ MaxSegs \in Nat
  <2>1. kv[k].depth \in 0..MaxSegs /\ MaxSegs \in Nat
    BY <1>1, CacheIs, ArenaAssumption DEF ArenaAssumption
  <2>2. goal.size \in (kv[k].depth + 1)..MaxSegs
    BY <1>0 DEF CtlOk
  <2> QED
    BY <2>1, <2>2
<1>4. /\ kv'[k].at = kv[k].at /\ kv'[k].depth = goal.size /\ kv'[k].closing = kv[k].closing
      /\ \A l \in Sessions : l # k => kv'[l] = kv[l]
  <2> DEFINE g == [kv[k] EXCEPT !.depth = goal.size]
  <2>1. kv[k] \in Caches /\ kv \in [Sessions -> Caches]
    BY <1>1 DEF KvOk
  <2>2. g.at = kv[k].at /\ g.depth = goal.size /\ g.closing = kv[k].closing
    BY <2>1 DEF Caches
  <2>3. kv' = [kv EXCEPT ![k] = g]
    BY <1>1
  <2> HIDE DEF g
  <2> QED
    BY <1>1, <2>1, <2>2, <2>3
<1>5. ASSUME NEW b \in B PROVE b.r \in plan.ranges /\ b.class = "KvCache" /\ b.owner = k /\ b.held
  BY <1>0, BatchIs
<1>6. ASSUME NEW r \in plan.ranges PROVE \E b \in B : b.r = r
  BY BatchHas
<1> HIDE DEF B
<1>7. ASSUME NEW l \in Sessions, l # k PROVE SessionLive(l)'
  <2>1. SessionLive(l)
    BY DEF KvLive
  <2>2. \A b \in B : ~(b.class = "KvCache" /\ b.owner = l)
    BY <1>5, <1>7
  <2> QED
    BY <2>1, <2>2, <1>0a, <1>1, <1>4, <1>7, SessionBeside
<1>8. SessionLive(k)'
  <2>0. SessionLive(k)
    BY <1>1 DEF KvLive
  <2>1. ASSUME NEW b \in live', b.class = "KvCache", b.owner = k
        PROVE  \E j \in 1..MaxSegs : b.r = kv[k].at[j] /\ (b.held => j <= goal.size)
    <3>1. CASE b \in live
      <4>1. PICK j \in 1..MaxSegs : b.r = kv[k].at[j] /\ (b.held => j <= kv[k].depth)
        BY <2>0, <2>1, <3>1, <1>0a DEF SessionLive
      <4>2. b.held => j <= goal.size
        BY <1>3, <4>1
      <4> QED
        BY <4>1, <4>2
    <3>2. CASE b \in B
      <4>1. PICK j \in (kv[k].depth + 1)..goal.size : b.r = kv[k].at[j]
        BY <3>2, <1>2, <1>5
      <4>2. j \in 1..MaxSegs /\ j <= goal.size
        BY <1>3
      <4> QED
        BY <4>1, <4>2
    <3> QED
      BY <1>1, <3>1, <3>2
  <2>2. ASSUME ~kv[k].closing, NEW j \in 1..goal.size
        PROVE  \E b \in live' : b.class = "KvCache" /\ b.owner = k /\ b.r = kv[k].at[j] /\ b.held
    <3>1. CASE j \in 1..kv[k].depth
      BY <3>1, <2>0, <2>2, <1>1 DEF SessionLive
    <3>2. CASE j \notin 1..kv[k].depth
      <4>1. j \in (kv[k].depth + 1)..goal.size
        BY <3>2, <1>3
      <4>2. kv[k].at[j] \in plan.ranges
        BY <4>1, <1>2
      <4>3. PICK b \in B : b.r = kv[k].at[j]
        BY <4>2, <1>6
      <4> QED
        BY <4>3, <1>1, <1>5
    <3> QED
      BY <3>1, <3>2
  <2> QED
    BY <2>1, <2>2, <1>2, <1>4 DEF SessionLive
<1> QED
  BY <1>7, <1>8 DEF KvLive

\* No session has a segment at first.
LEMMA KvLiveInit ==
  ASSUME Init
  PROVE  KvLive
<1>1. \A k \in Sessions : kv[k].depth = 0
  BY DEF Init, NoKv
<1>2. ASSUME NEW a \in live PROVE a.class = "Expert"
  <2>1. PICK i \in Directory : a \in Batch({Slots[i].r}, "Expert", i)
    BY DEF Init
  <2> QED
    BY <2>1, BatchIs
<1> QED
  BY <1>1, <1>2 DEF KvLive, SessionLive

\* A session's live segments stay the committed prefix of its coordinates.
LEMMA KvLiveNext ==
  ASSUME LiveOk, KvOk, CtlOk, PlanOk, KvLive, [Next]_vars
  PROVE  KvLive'
<1> DEFINE Kept == gate = "trim" => UNCHANGED <<gate, goal>>
<1>0. ASSUME live' = live, kv' = kv, Kept PROVE KvLive'
  <2> SUFFICES ASSUME NEW k \in Sessions PROVE SessionLive(k)'
    BY DEF KvLive
  <2>1. SessionLive(k) /\ (Trimming(k) => Trimming(k)')
    BY <1>0 DEF KvLive, Trimming
  <2>2. /\ kv'[k].at = kv[k].at /\ kv'[k].depth = kv[k].depth
        /\ kv'[k].closing = kv[k].closing
    BY <1>0
  <2> QED
    BY <1>0, <2>1, <2>2, SessionKept
<1>00. ASSUME NEW A, live' = Released(A), kv' = kv, Kept, \A a \in A : a.class # "KvCache"
       PROVE  KvLive'
  <2> SUFFICES ASSUME NEW k \in Sessions PROVE SessionLive(k)'
    BY DEF KvLive
  <2>1. SessionLive(k) /\ (Trimming(k) => Trimming(k)')
    BY <1>00 DEF KvLive, Trimming
  <2>2. /\ kv'[k].at = kv[k].at /\ kv'[k].depth = kv[k].depth
        /\ kv'[k].closing = kv[k].closing
    BY <1>00
  <2> QED
    BY <2>1, <2>2, <1>00, SessionReleased
<1>1. ASSUME NEW a \in live, GiveBack(a) PROVE KvLive'
  <2> SUFFICES ASSUME NEW k \in Sessions PROVE SessionLive(k)'
    BY DEF KvLive
  <2>1. SessionLive(k)
    BY DEF KvLive
  <2>2. live' = live \ {a} /\ kv' = kv /\ ~a.held /\ UNCHANGED <<gate, goal>>
    BY <1>1 DEF GiveBack
  <2>3. ASSUME NEW b \in live' PROVE \E c \in live : /\ b.r = c.r /\ b.class = c.class
                                                     /\ b.owner = c.owner /\ (b.held => c.held)
    BY <2>2
  <2>4. ASSUME NEW c \in live, c.held
        PROVE  \E b \in live' : b.r = c.r /\ b.class = c.class /\ b.owner = c.owner /\ b.held
    BY <2>2, <2>4
  <2>5. Trimming(k) => Trimming(k)'
    BY <2>2 DEF Trimming
  <2> QED
    BY <2>1, <2>2, <2>3, <2>4, <2>5, SessionKept
<1>2. ASSUME NEW a \in live, CloseWork(a) PROVE KvLive'
  BY <1>2, <1>00 DEF CloseWork
<1>3. ASSUME NEW k \in Sessions, CloseSegment(k) PROVE KvLive'
  <2>1. PICK a \in live : a.owner = k /\ live' = Released({a})
    BY <1>3 DEF CloseSegment, DropSegment
  <2>2. kv' = [kv EXCEPT ![k].closing = TRUE] /\ goal.owner # k /\ UNCHANGED <<gate, goal>>
    BY <1>3 DEF CloseSegment
  <2>3. /\ kv'[k].at = kv[k].at /\ kv'[k].depth = kv[k].depth /\ kv'[k].closing
        /\ \A l \in Sessions : l # k => kv'[l] = kv[l]
    <3> DEFINE g == [kv[k] EXCEPT !.closing = TRUE]
    <3>1. kv[k] \in Caches /\ kv \in [Sessions -> Caches]
      BY DEF KvOk
    <3>2. g.at = kv[k].at /\ g.depth = kv[k].depth /\ g.closing
      BY <3>1 DEF Caches
    <3>3. kv' = [kv EXCEPT ![k] = g]
      BY <2>2
    <3> HIDE DEF g
    <3> QED
      BY <3>1, <3>2, <3>3
  <2>4. ASSUME NEW l \in Sessions, l # k PROVE SessionLive(l)'
    <3>1. SessionLive(l) /\ kv'[l] = kv[l] /\ (Trimming(l) => Trimming(l)')
      BY <2>2, <2>3, <2>4 DEF KvLive, Trimming
    <3>2. \A c \in {a} : c.owner # l
      BY <2>1, <2>4
    <3> QED
      BY <3>1, <3>2, <2>1, SessionReleased
  <2>5. SessionLive(k)'
    <3>1. live \subseteq Allocations /\ SessionLive(k) /\ ~Trimming(k)
      BY <2>2 DEF LiveOk, KvLive, Trimming
    <3>2. ASSUME NEW b \in live', b.class = "KvCache", b.owner = k
          PROVE  /\ kv[k].at # <<>>
                 /\ \E j \in 1..MaxSegs : b.r = kv[k].at[j] /\ (b.held => j <= kv[k].depth)
      <4>1. PICK c \in live : /\ b.r = c.r /\ b.class = c.class /\ b.owner = c.owner
                              /\ b.held = (c.held /\ c \notin {a})
        BY <3>1, <2>1, ReleasedIs
      <4>2. c.class = "KvCache" /\ c.owner = k /\ (b.held => c.held)
        BY <3>2, <4>1
      <4>3. kv[k].at # <<>>
        BY <3>1, <4>2 DEF SessionLive
      <4>4. PICK j \in 1..MaxSegs : c.r = kv[k].at[j] /\ (c.held => j <= kv[k].depth)
        BY <3>1, <4>2 DEF SessionLive
      <4>5. b.r = kv[k].at[j] /\ (b.held => j <= kv[k].depth)
        BY <4>1, <4>2, <4>4
      <4> QED
        BY <4>3, <4>5
    <3> QED
      BY <3>2, <2>3 DEF SessionLive
  <2> QED
    BY <2>4, <2>5 DEF KvLive
<1>4. ASSUME NEW k \in Sessions, DropReservation(k) PROVE KvLive'
  <2>1. /\ live' = live /\ (\A a \in live : a.owner # k) /\ kv' = [kv EXCEPT ![k] = NoKv]
        /\ UNCHANGED <<gate, goal>>
    BY <1>4 DEF DropReservation
  <2>2. kv'[k].depth = 0 /\ \A l \in Sessions : l # k => kv'[l] = kv[l]
    <3>1. kv \in [Sessions -> Caches]
      BY DEF KvOk
    <3> QED
      BY <3>1, <2>1 DEF NoKv
  <2>3. SessionLive(k)'
    BY <2>1, <2>2 DEF SessionLive
  <2>4. ASSUME NEW l \in Sessions, l # k PROVE SessionLive(l)'
    <3>1. SessionLive(l) /\ kv'[l] = kv[l] /\ (Trimming(l) => Trimming(l)')
      BY <2>1, <2>2, <2>4 DEF KvLive, Trimming
    <3> QED
      BY <3>1, <2>1, SessionKept
  <2> QED
    BY <2>3, <2>4 DEF KvLive
<1>5. ASSUME NEW k \in Sessions, ReserveKv(k) PROVE KvLive'
  <2>1. live' = live /\ kv[k].at = <<>> /\ kv[k].depth = 0 /\ gate = "plan"
    BY <1>5, CacheIs DEF ReserveKv
  <2>2. CASE kv' = kv
    BY <2>1, <2>2, <1>0
  <2>3. CASE kv' = [kv EXCEPT ![k].at = kv'[k].at]
    <3>1. kv'[k].depth = kv[k].depth /\ \A l \in Sessions : l # k => kv'[l] = kv[l]
      <4>1. kv[k] \in Caches /\ kv \in [Sessions -> Caches]
        BY DEF KvOk
      <4> DEFINE g == [kv[k] EXCEPT !.at = kv'[k].at]
      <4>2. g.depth = kv[k].depth
        BY <4>1 DEF Caches
      <4>3. kv' = [kv EXCEPT ![k] = g]
        BY <2>3
      <4> HIDE DEF g
      <4>4. k \in DOMAIN kv
        BY <4>1
      <4>5. kv'[k] = g
        BY <4>3, <4>4
      <4>6. ASSUME NEW l \in Sessions, l # k PROVE kv'[l] = kv[l]
        <5>1. l \in DOMAIN kv
          BY <4>1
        <5> QED
          BY <5>1, <4>3, <4>6
      <4> QED
        BY <4>2, <4>5, <4>6
    <3>2. SessionLive(k)'
      <4>1. \A a \in live : ~(a.class = "KvCache" /\ a.owner = k)
        BY <2>1 DEF KvLive, SessionLive
      <4> QED
        BY <2>1, <3>1, <4>1 DEF SessionLive
    <3>3. ASSUME NEW l \in Sessions, l # k PROVE SessionLive(l)'
      <4>1. SessionLive(l) /\ kv'[l] = kv[l] /\ ~Trimming(l)
        BY <2>1, <3>1, <3>3 DEF KvLive, Trimming
      <4> QED
        BY <4>1, <2>1, SessionKept
    <3> QED
      BY <3>2, <3>3 DEF KvLive
  <2> QED
    BY <1>5, <2>2, <2>3, KvLaid
<1>6. ASSUME NEW k \in Sessions, PlanGrow(k) PROVE KvLive'
  BY <1>6, <1>0 DEF PlanGrow
<1>7. ASSUME NEW n \in WorkSizes, StartWork(n) PROVE KvLive'
  BY <1>7, <1>0 DEF StartWork
<1>8. ASSUME EnterDecode, kv' = kv, gate = "open" PROVE KvLive'
  BY <1>8, <1>00 DEF EnterDecode
<1>9. ASSUME NEW k \in Sessions, NEW n \in 1..MaxSegs, StartGrow(k, n) PROVE KvLive'
  BY <1>9, <1>8 DEF StartGrow
<1>10. CASE StartDecode
  BY <1>10, <1>8 DEF StartDecode
<1>11. CASE StartRing \/ StartRestore \/ EndRestore \/ PlanWork \/ PlanRing
  BY <1>11, <1>0 DEF StartRing, StartRestore, EndRestore, PlanWork, PlanRing
<1>12. CASE RestoreSlot
  <2>1. kv' = kv /\ gate # "trim"
    BY <1>12 DEF RestoreSlot
  <2>2. CASE live' = live
    BY <2>1, <2>2, <1>0
  <2>3. CASE live' = live \cup Batch({Slots[cursor].r}, "Expert", cursor)
    <3> SUFFICES ASSUME NEW k \in Sessions PROVE SessionLive(k)'
      BY DEF KvLive
    <3> DEFINE B == Batch({Slots[cursor].r}, "Expert", cursor)
    <3>1. \A b \in B : b.class = "Expert"
      BY BatchIs
    <3> HIDE DEF B
    <3>2. SessionLive(k) /\ live' = live \cup B /\ ~Trimming(k)
      BY <2>1, <2>3 DEF KvLive, B, Trimming
    <3> QED
      BY <2>1, <3>1, <3>2, SessionBeside
  <2> QED
    BY <1>12, <2>2, <2>3 DEF RestoreSlot
<1>13. CASE Retire
  <2>1. \A a \in {e \in Experts : e.owner = Min(plan.victims)} : a.class # "KvCache"
    BY DEF Experts
  <2> QED
    BY <1>13, <2>1, <1>00 DEF Retire
<1>14. CASE Commit
  <2>1. CASE ~Claimable(plan.ranges)
    BY <1>14, <2>1, <1>0 DEF Commit
  <2>2. CASE Claimable(plan.ranges) /\ goal.class = "KvCache"
    BY <1>14, <2>2, SessionGrown
  <2>3. CASE Claimable(plan.ranges) /\ goal.class # "KvCache"
    <3> SUFFICES ASSUME NEW k \in Sessions PROVE SessionLive(k)'
      BY DEF KvLive
    <3> DEFINE B == Batch(plan.ranges, goal.class, goal.owner)
    <3>1. \A b \in B : b.class # "KvCache"
      BY <2>3, BatchIs
    <3>2. live' = live \cup B /\ kv' = kv
      BY <1>14, <2>3 DEF Commit
    <3> HIDE DEF B
    <3>3. SessionLive(k) /\ ~Trimming(k)
      BY <1>14 DEF KvLive, Commit, Trimming
    <3> QED
      BY <3>1, <3>2, <3>3, SessionBeside
  <2> QED
    BY <2>1, <2>2, <2>3
<1>15. ASSUME NEW k \in Sessions, StartTrim(k) PROVE KvLive'
  <2>1. /\ gate = "open" /\ gate' = "trim" /\ live' = live /\ kv[k].depth > 1
        /\ goal' = [class |-> "Trim", owner |-> k, size |-> 1]
        /\ kv' = [kv EXCEPT ![k].depth = 1]
    BY <1>15 DEF StartTrim
  <2>2. /\ kv'[k].at = kv[k].at /\ kv'[k].depth = 1 /\ kv'[k].closing = kv[k].closing
        /\ \A l \in Sessions : l # k => kv'[l] = kv[l]
    <3> DEFINE g == [kv[k] EXCEPT !.depth = 1]
    <3>1. kv[k] \in Caches /\ kv \in [Sessions -> Caches]
      BY DEF KvOk
    <3>2. g.at = kv[k].at /\ g.depth = 1 /\ g.closing = kv[k].closing
      BY <3>1 DEF Caches
    <3>3. kv' = [kv EXCEPT ![k] = g]
      BY <2>1
    <3> HIDE DEF g
    <3> QED
      BY <3>1, <3>2, <3>3
  <2>3. SessionLive(k)'
    <3>1. SessionLive(k) /\ Trimming(k)'
      BY <2>1 DEF KvLive, Trimming
    <3>2. 1..1 \subseteq 1..kv[k].depth
      BY <2>1, CacheIs, ArenaAssumption DEF ArenaAssumption
    <3> QED
      BY <2>1, <2>2, <3>1, <3>2 DEF SessionLive
  <2>4. ASSUME NEW l \in Sessions, l # k PROVE SessionLive(l)'
    <3>1. SessionLive(l) /\ kv'[l] = kv[l] /\ ~Trimming(l)
      BY <2>1, <2>2, <2>4 DEF KvLive, Trimming
    <3> QED
      BY <3>1, <2>1, SessionKept
  <2> QED
    BY <2>3, <2>4 DEF KvLive
<1>16. ASSUME NEW k \in Sessions, TrimSegment(k) PROVE KvLive'
  <2>1. /\ gate = "trim" /\ goal.owner = k /\ kv' = kv /\ UNCHANGED <<gate, goal>>
        /\ goal.size = kv[k].depth
    BY <1>16 DEF TrimSegment, CtlOk
  <2>2. PICK i \in (kv[k].depth + 1)..Len(kv[k].at) : \E a \in live :
            a.owner = k /\ a.r = kv[k].at[i] /\ live' = Released({a})
    BY <1>16, <2>1 DEF TrimSegment, DropSegment
  <2>3. PICK a \in live : a.owner = k /\ a.r = kv[k].at[i] /\ live' = Released({a})
    BY <2>2
  <2>4. /\ kv[k].at # <<>> /\ i \in 1..MaxSegs /\ MaxSegs \in Nat
        /\ kv[k].depth \in 0..MaxSegs /\ kv[k].at[i] \in Cuts
    <3>1. kv[k].depth \in 0..MaxSegs /\ MaxSegs \in Nat
      BY CacheIs, ArenaAssumption DEF ArenaAssumption
    <3>2. kv[k].at # <<>>
      <4> SUFFICES ASSUME kv[k].at = <<>> PROVE FALSE
        OBVIOUS
      <4>1. Len(kv[k].at) = 0 /\ kv[k].depth = 0
        BY CacheIs
      <4>2. i \in 1..0
        BY <4>1
      <4> QED
        BY <4>2
    <3>3. kv[k].at \in Layouts /\ Len(kv[k].at) = MaxSegs
      BY <3>2, CacheIs, LayoutIs
    <3>4. i \in 1..MaxSegs
      BY <3>1, <3>3
    <3> QED
      BY <3>1, <3>2, <3>3, <3>4, LayoutIs
  <2>5. ASSUME NEW l \in Sessions, NEW j \in 1..kv[l].depth
        PROVE  ~(a.owner = l /\ a.r = kv[l].at[j])
    <3> SUFFICES ASSUME a.owner = l, a.r = kv[l].at[j] PROVE FALSE
      OBVIOUS
    <3>1. l = k /\ j \in 1..MaxSegs /\ i # j
      BY <2>3, <2>4
    <3>2. ~Overlap(kv[k].at[i], kv[k].at[j])
      BY <2>4, <3>1 DEF KvOk
    <3>3. Overlap(kv[k].at[i], kv[k].at[i])
      BY <2>4, CutFields DEF Overlap
    <3> QED
      BY <2>3, <3>1, <3>2, <3>3
  <2> SUFFICES ASSUME NEW l \in Sessions PROVE SessionLive(l)'
    BY DEF KvLive
  <2>6. SessionLive(l) /\ kv'[l] = kv[l] /\ (Trimming(l) => Trimming(l)')
    BY <2>1 DEF KvLive, Trimming
  <2>7. \A c \in {a}, j \in 1..kv[l].depth : ~(c.class = "KvCache" /\ c.owner = l /\ c.r = kv[l].at[j])
    BY <2>5
  <2> QED
    BY <2>3, <2>6, <2>7, SessionReleased
<1>17. ASSUME NEW k \in Sessions, EndTrim(k) PROVE KvLive'
  <2>1. /\ gate = "trim" /\ goal.owner = k /\ live' = live /\ kv' = kv
        /\ goal.size = kv[k].depth
        /\ \A a \in live : a.owner = k /\ a.held =>
              a.r \in {kv[k].at[i] : i \in 1..kv[k].depth}
    BY <1>17 DEF EndTrim, CtlOk
  <2>2. SessionLive(k)'
    <3>1. SessionLive(k) /\ MaxSegs \in Nat /\ kv[k].depth \in 0..MaxSegs
      BY CacheIs, ArenaAssumption DEF KvLive, ArenaAssumption
    <3>2. ASSUME NEW a \in live, a.class = "KvCache", a.owner = k
          PROVE  \E j \in 1..MaxSegs : a.r = kv[k].at[j] /\ (a.held => j <= kv[k].depth)
      <4>1. CASE a.held
        <5>1. PICK j \in 1..kv[k].depth : a.r = kv[k].at[j]
          BY <2>1, <3>2, <4>1
        <5>2. j \in 1..MaxSegs /\ j <= kv[k].depth
          BY <3>1
        <5> QED
          BY <5>1, <5>2
      <4>2. CASE ~a.held
        BY <3>1, <3>2, <4>2 DEF SessionLive
      <4> QED
        BY <4>1, <4>2
    <3> QED
      BY <2>1, <3>1, <3>2 DEF SessionLive
  <2>3. ASSUME NEW l \in Sessions, l # k PROVE SessionLive(l)'
    <3>1. SessionLive(l) /\ kv'[l] = kv[l] /\ ~Trimming(l)
      BY <2>1, <2>3 DEF KvLive, Trimming
    <3> QED
      BY <3>1, <2>1, SessionKept
  <2> QED
    BY <2>2, <2>3 DEF KvLive
<1>18. CASE UNCHANGED vars
  BY <1>18, <1>0 DEF vars
<1> QED
  BY <1>1, <1>2, <1>3, <1>4, <1>5, <1>6, <1>7, <1>9, <1>10, <1>11, <1>12, <1>13, <1>14, <1>15,
     <1>16, <1>17, <1>18 DEF Next
-----------------------------------------------------------------------------
(* WorkLive and RingGone, step by step.                                    *)

\* Apart from claims, every record of the next state was there before.
Fewer ==
    \A b \in live' : \E a \in live : /\ b.r = a.r /\ b.class = a.class /\ (b.held => a.held)
                                     /\ b.owner = a.owner /\ b.lease = a.lease

\* Letting allocations go creates none.
LEMMA ReleasedFewer ==
  ASSUME LiveOk, NEW A, live' = Released(A)
  PROVE  Fewer
<1>1. live \subseteq Allocations
  BY DEF LiveOk
<1>2. ASSUME NEW b \in live'
      PROVE  \E a \in live : /\ b.r = a.r /\ b.class = a.class /\ (b.held => a.held)
                             /\ b.owner = a.owner /\ b.lease = a.lease
  <2>1. PICK a \in live : /\ b.r = a.r /\ b.class = a.class /\ b.owner = a.owner
                          /\ b.lease = a.lease /\ b.held = (a.held /\ a \notin A)
    BY <1>1, ReleasedIs
  <2>2. b.held => a.held
    BY <2>1
  <2> QED
    BY <2>1, <2>2
<1> QED
  BY <1>2 DEF Fewer

\* What a step adds to the allocations: nothing, a restored slot, or the
\* batch of the committed plan.
LEMMA LiveStep ==
  ASSUME LiveOk, CtlOk, PlanOk, [Next]_vars
  PROVE  \/ Fewer
         \/ /\ RestoreSlot
            /\ \A b \in live' : b \in live \/ b.class = "Expert"
         \/ /\ Commit /\ Claimable(plan.ranges)
            /\ \A b \in live' : b \in live \/ (b.class = goal.class /\ b.r \in plan.ranges)
<1>0. ASSUME live' \subseteq live PROVE Fewer
  BY <1>0 DEF Fewer
<1>1. ASSUME NEW a \in live, GiveBack(a) PROVE Fewer
  BY <1>0, <1>1 DEF GiveBack
<1>2. ASSUME NEW a \in live, CloseWork(a) PROVE Fewer
  BY <1>2, ReleasedFewer DEF CloseWork
<1>3. ASSUME NEW k \in Sessions, CloseSegment(k) \/ TrimSegment(k) PROVE Fewer
  BY <1>3, ReleasedFewer DEF CloseSegment, TrimSegment, DropSegment
<1>4. ASSUME NEW k \in Sessions, DropReservation(k) \/ ReserveKv(k) \/ PlanGrow(k)
                                  \/ StartTrim(k) \/ EndTrim(k)
      PROVE  Fewer
  BY <1>0, <1>4 DEF DropReservation, ReserveKv, PlanGrow, StartTrim, EndTrim
<1>5. ASSUME NEW n \in WorkSizes, StartWork(n) PROVE Fewer
  BY <1>0, <1>5 DEF StartWork
<1>6. ASSUME NEW k \in Sessions, NEW n \in 1..MaxSegs, StartGrow(k, n) PROVE Fewer
  BY <1>6, ReleasedFewer DEF StartGrow, EnterDecode
<1>7. CASE StartDecode
  BY <1>7, ReleasedFewer DEF StartDecode, EnterDecode
<1>8. CASE StartRing \/ StartRestore \/ EndRestore \/ PlanWork \/ PlanRing
  BY <1>0, <1>8 DEF StartRing, StartRestore, EndRestore, PlanWork, PlanRing
<1>9. CASE RestoreSlot
  <2> DEFINE B == Batch({Slots[cursor].r}, "Expert", cursor)
  <2>1. \A b \in B : b.class = "Expert"
    BY BatchIs
  <2>2. live' = live \/ live' = live \cup B
    BY <1>9 DEF RestoreSlot
  <2> HIDE DEF B
  <2> QED
    BY <1>9, <2>1, <2>2
<1>10. CASE Retire
  BY <1>10, ReleasedFewer DEF Retire
<1>11. CASE Commit
  <2> DEFINE B == Batch(plan.ranges, goal.class, goal.owner)
  <2>1. \A b \in B : b.class = goal.class /\ b.r \in plan.ranges
    BY BatchIs
  <2>2. (~Claimable(plan.ranges) /\ live' = live)
        \/ (Claimable(plan.ranges) /\ live' = live \cup B)
    BY <1>11 DEF Commit
  <2> HIDE DEF B
  <2> QED
    BY <1>11, <2>1, <2>2, <1>0
<1>12. CASE UNCHANGED vars
  BY <1>0, <1>12 DEF vars
<1> QED
  BY <1>1, <1>2, <1>3, <1>4, <1>5, <1>6, <1>7, <1>8, <1>9, <1>10, <1>11, <1>12 DEF Next

\* The runtime work areas stay above the floor.
LEMMA WorkLiveNext ==
  ASSUME LiveOk, CtlOk, PlanOk, WorkLive, [Next]_vars
  PROVE  WorkLive'
<1> SUFFICES ASSUME NEW b \in live', b.class = "LlmRuntime" PROVE FloorTo <= b.r.from
  BY DEF WorkLive
<1>1. CASE Fewer
  <2>1. PICK a \in live : b.r = a.r /\ b.class = a.class
    BY <1>1 DEF Fewer
  <2> QED
    BY <2>1 DEF WorkLive
<1>2. CASE \A c \in live' : c \in live \/ c.class = "Expert"
  BY <1>2 DEF WorkLive
<1>3. CASE /\ Commit
           /\ \A c \in live' : c \in live \/ (c.class = goal.class /\ c.r \in plan.ranges)
  <2>1. CASE b \in live
    BY <2>1 DEF WorkLive
  <2>2. CASE goal.class = "LlmRuntime" /\ b.r \in plan.ranges
    BY <1>3, <2>2 DEF Commit, PlanOk
  <2> QED
    BY <1>3, <2>1, <2>2
<1> QED
  BY <1>1, <1>2, <1>3, LiveStep

\* Without slots there is no arena.
LEMMA SlotsThere ==
  ASSUME NEW c \in Cuts
  PROVE  Directory # {}
<1> SUFFICES ASSUME Directory = {} PROVE FALSE
  OBVIOUS
<1>1. CellsIn({Slots[i].r : i \in Directory}) = {}
  BY DEF CellsIn
<1>2. 0..(Total - 1) = {} /\ Total \in Nat
  BY <1>1, ArenaAssumption DEF ArenaAssumption
<1>3. Total = 0
  BY <1>2
<1> QED
  BY <1>3, CutFields

\* Nothing but a commit makes a Prefill allocation.
LEMMA RingFewer ==
  ASSUME LiveOk, CtlOk, PlanOk, [Next]_vars, mode' = "decode", NEW b \in live',
         b.class = "Prefill"
  PROVE  \E a \in live : a.class = "Prefill" /\ a.r = b.r /\ (b.held => a.held)
<1>1. CASE Fewer
  BY <1>1 DEF Fewer
<1>2. CASE \A c \in live' : c \in live \/ c.class = "Expert"
  BY <1>2
<1>3. CASE /\ Commit /\ Claimable(plan.ranges)
           /\ \A c \in live' : c \in live \/ (c.class = goal.class /\ c.r \in plan.ranges)
  <2>1. goal.class # "Prefill"
    BY <1>3 DEF Commit
  <2> QED
    BY <1>3, <2>1
<1> QED
  BY <1>1, <1>2, <1>3, LiveStep

\* The prefill ring stays confined to prefill and the way back from it.
LEMMA RingGoneNext ==
  ASSUME LiveOk, CtlOk, PlanOk, RingGone, [Next]_vars
  PROVE  RingGone'
<1> SUFFICES ASSUME mode' = "decode", NEW b \in live', b.class = "Prefill"
             PROVE  ~b.held /\ gate' = "restore" /\ cursor' = 1
  BY DEF RingGone
<1>0. PICK a \in live : a.class = "Prefill" /\ a.r = b.r /\ (b.held => a.held)
  BY RingFewer
<1>1. ASSUME mode = "decode", gate # "restore" PROVE FALSE
  BY <1>0, <1>1 DEF RingGone
<1>2. ASSUME UNCHANGED <<mode, gate, cursor>>
      PROVE  ~b.held /\ gate' = "restore" /\ cursor' = 1
  BY <1>0, <1>2 DEF RingGone
<1>3. ASSUME mode' = mode, gate # "restore" PROVE FALSE
  BY <1>1, <1>3
<1>4. ASSUME NEW c \in live, GiveBack(c) \/ CloseWork(c) PROVE UNCHANGED <<mode, gate, cursor>>
  BY <1>4 DEF GiveBack, CloseWork
<1>5. ASSUME NEW k \in Sessions, CloseSegment(k) \/ DropReservation(k)
      PROVE  UNCHANGED <<mode, gate, cursor>>
  BY <1>5 DEF CloseSegment, DropReservation
<1>6. ASSUME NEW k \in Sessions, ReserveKv(k) \/ PlanGrow(k) PROVE FALSE
  BY <1>3, <1>6 DEF ReserveKv, PlanGrow
<1>7. ASSUME NEW n \in WorkSizes, StartWork(n) PROVE FALSE
  BY <1>3, <1>7 DEF StartWork
<1>8. ASSUME EnterDecode, gate = "open", cursor' = cursor
      PROVE  ~b.held /\ gate' = "restore" /\ cursor' = 1
  <2>1. mode = "prefill"
    BY <1>1, <1>8 DEF CtlOk
  <2>2. gate' = "restore" /\ cursor' = 1
    BY <1>8, <2>1 DEF EnterDecode, CtlOk
  <2>3. ~b.held
    <3> DEFINE A == {c \in live : c.class = "Prefill"}
    <3>1. live' = Released(A) /\ live \subseteq Allocations
      BY <1>8 DEF EnterDecode, LiveOk
    <3>2. \A x \in A : x.class = "Prefill"
      OBVIOUS
    <3>3. \A x \in live : x.class = "Prefill" => x \in A
      OBVIOUS
    <3> HIDE DEF A
    <3>4. PICK c \in live : b.class = c.class /\ b.held = (c.held /\ c \notin A)
      BY <3>1, ReleasedIs
    <3>5. c \in A
      BY <3>3, <3>4
    <3> QED
      BY <3>4, <3>5
  <2> QED
    BY <2>2, <2>3
<1>9. ASSUME NEW k \in Sessions, NEW n \in 1..MaxSegs, StartGrow(k, n)
      PROVE  ~b.held /\ gate' = "restore" /\ cursor' = 1
  BY <1>8, <1>9 DEF StartGrow
<1>10. CASE StartDecode
  BY <1>8, <1>10 DEF StartDecode
<1>11. CASE StartRing \/ StartRestore
  BY <1>3, <1>11 DEF StartRing, StartRestore
<1>12. CASE RestoreSlot
  <2>1. ~a.held
    BY <1>0, <1>12 DEF RestoreSlot, RingGone
  <2> QED
    BY <1>0, <1>12, <2>1 DEF RestoreSlot, Drained
<1>13. CASE EndRestore
  <2>1. cursor = 1 /\ cursor \notin Directory
    BY <1>0, <1>13 DEF EndRestore, RingGone
  <2>2. Directory # {}
    <3>1. a.r \in Cuts
      BY DEF LiveOk, Allocations
    <3> QED
      BY <3>1, SlotsThere
  <2>3. Directory = 1..Cardinality(Directory) /\ Cardinality(Directory) \in Nat
    BY ArenaAssumption, FS_CardinalityType DEF ArenaAssumption
  <2>4. PICK i \in Directory : TRUE
    BY <2>2
  <2>5. i \in 1..Cardinality(Directory)
    BY <2>3
  <2>6. 1 \in 1..Cardinality(Directory)
    BY <2>3, <2>5
  <2> QED
    BY <2>1, <2>3, <2>6
<1>14. CASE PlanWork \/ PlanRing \/ Retire
  BY <1>3, <1>14 DEF PlanWork, PlanRing, Retire
<1>15. CASE Commit
  <2>1. mode' = mode
    BY <1>15 DEF Commit
  <2> QED
    BY <1>3, <1>15, <2>1 DEF Commit
<1>16. ASSUME NEW k \in Sessions, StartTrim(k) \/ TrimSegment(k) \/ EndTrim(k) PROVE FALSE
  BY <1>3, <1>16 DEF StartTrim, TrimSegment, EndTrim
<1>17. CASE UNCHANGED vars
  BY <1>2, <1>17 DEF vars
<1> QED
  BY <1>2, <1>4, <1>5, <1>6, <1>7, <1>9, <1>10, <1>11, <1>12, <1>13, <1>14, <1>15, <1>16, <1>17
  DEF Next
-----------------------------------------------------------------------------
(* FloorIn, step by step.                                                  *)

\* A filled slot stays filled unless its expert is released.
LEMMA FilledReleased ==
  ASSUME LiveOk, NEW i, Filled(i), NEW A, live' = Released(A),
         \A a \in A : ~(a.class = "Expert" /\ a.owner = i)
  PROVE  Filled(i)'
<1>1. PICK a \in live : a.class = "Expert" /\ a.owner = i /\ a.held
  BY DEF Filled
<1>2. a \notin A
  BY <1>1
<1>3. live \subseteq Allocations
  BY DEF LiveOk
<1>4. PICK b \in live' : /\ b.class = a.class /\ b.owner = a.owner
                         /\ b.held = (a.held /\ a \notin A)
  BY <1>3, ReleasedIs
<1>5. b.held
  BY <1>1, <1>2, <1>4
<1> QED
  BY <1>1, <1>4, <1>5 DEF Filled

\* A filled slot stays filled when allocations are only added.
LEMMA FilledMore ==
  ASSUME NEW i, Filled(i), live \subseteq live'
  PROVE  Filled(i)'
BY DEF Filled

\* A restore that looks at a slot of the floor fills it: whoever else had
\* borrowed its cells is gone.
LEMMA FloorRestored ==
  ASSUME LiveOk, Tile, KvOk, CtlOk, KvLive, WorkLive, RingGone, mode = "decode",
         RestoreSlot, NEW i \in FloorSlots, i = cursor
  PROVE  Filled(i)'
<1> DEFINE r == Slots[i].r
<1>1. i \in Directory /\ r \in Cuts /\ Drained
  BY SlotRange DEF FloorSlots, RestoreSlot
<1>2. CASE \E a \in Experts : a.owner = i
  <2>1. PICK a \in live : a.class = "Expert" /\ a.owner = i
    BY <1>2 DEF Experts
  <2>2. a.held
    BY <1>1, <2>1 DEF Drained
  <2>3. ~(\A e \in Experts : e.owner # i)
    BY <1>2
  <2>4. live' = live
    BY <2>3 DEF RestoreSlot
  <2> QED
    BY <2>1, <2>2, <2>4 DEF Filled
<1>3. CASE \A a \in Experts : a.owner # i
  <2>1. ASSUME NEW a \in live PROVE ~Overlap(a.r, r)
    <3>0. a \in Allocations /\ a.r \in Cuts /\ a.class \in Classes /\ Proper(a)
      BY DEF LiveOk, Allocations
    <3>1. CASE a.class = "Expert"
      <4>1. a.owner \in Directory /\ a.owner # i /\ a.r = Slots[a.owner].r
        BY <1>3, <3>0, <3>1 DEF Experts, Proper
      <4> QED
        BY <4>1, <1>1, ArenaAssumption DEF ArenaAssumption
    <3>2. CASE a.class = "KvCache"
      <4>1. PICK k \in Sessions : a.owner = k
        BY <3>0, <3>2 DEF Proper
      <4>2. PICK j \in 1..MaxSegs : a.r = kv[k].at[j]
        BY <3>2, <4>1 DEF KvLive, SessionLive
      <4>3. kv[k].at # <<>>
        BY <3>2, <4>1 DEF KvLive, SessionLive
      <4>4. a.r.to <= FloorFrom
        BY <4>2, <4>3 DEF KvOk
      <4> QED
        BY <3>0, <4>4, FloorClear
    <3>3. CASE a.class = "LlmRuntime"
      <4>1. FloorTo <= a.r.from
        BY <3>3 DEF WorkLive
      <4> QED
        BY <3>0, <4>1, FloorClear
    <3>4. CASE a.class = "Prefill"
      <4>1. ~a.held
        BY <3>4 DEF RingGone
      <4> QED
        BY <3>4, <4>1, <1>1 DEF Drained
    <3> QED
      BY <3>0, <3>1, <3>2, <3>3, <3>4 DEF Classes
  <2>2. Claimable({r})
    <3>1. PICK s \in Shards : Within(r, s)
      BY <1>1, SlotRange
    <3>2. \A p \in Ranges(live) : ~Overlap(p, r)
      BY <2>1 DEF Ranges
    <3>3. Tiling(free, Ranges(live))
      BY DEF Tile
    <3>4. \E f \in free : Within(r, f)
      BY <3>1, <3>2, <3>3, <1>1, ClearIsFree
    <3> HIDE DEF r
    <3> QED
      BY <3>4 DEF Claimable
  <2> DEFINE B == Batch({r}, "Expert", i)
  <2>3. live' = live \cup B
    BY <1>3, <2>2 DEF RestoreSlot
  <2>4. PICK b \in B : b.r = r
    BY BatchHas
  <2>5. b.class = "Expert" /\ b.owner = i /\ b.held
    BY BatchIs
  <2> HIDE DEF B
  <2> QED
    BY <2>3, <2>5 DEF Filled
<1> QED
  BY <1>2, <1>3

\* The initial layout fills the floor.
LEMMA FloorInInit ==
  ASSUME Init
  PROVE  FloorIn
<1>1. ASSUME NEW i \in Directory PROVE Filled(i)
  <2>1. PICK b \in Batch({Slots[i].r}, "Expert", i) : b.r = Slots[i].r
    BY BatchHas
  <2>2. b.class = "Expert" /\ b.owner = i /\ b.held
    BY BatchIs
  <2>3. b \in live
    BY DEF Init
  <2> QED
    BY <2>2, <2>3 DEF Filled
<1> QED
  BY <1>1 DEF FloorIn, FloorSlots

\* The floor is whole again before decode resumes, and nobody takes it meanwhile.
LEMMA FloorInNext ==
  ASSUME LiveOk, Tile, KvOk, CtlOk, PlanOk, KvLive, WorkLive, RingGone, FloorIn, [Next]_vars
  PROVE  FloorIn'
<1> SUFFICES ASSUME mode' = "decode", ~(gate' = "retire" /\ goal'.class = "Prefill"),
                    NEW i \in FloorSlots, gate' = "restore" => i < cursor'
             PROVE  Filled(i)'
  BY DEF FloorIn
<1>0. i \in Directory /\ i \in Nat /\ i >= 1
  BY ArenaAssumption, FS_CardinalityType DEF ArenaAssumption, FloorSlots
<1>1. ASSUME gate' = "restore", cursor' = 1 PROVE FALSE
  BY <1>0, <1>1
\* What was filled, and stays so.
<1>2. ASSUME UNCHANGED <<mode, gate, cursor, goal>> PROVE Filled(i)
  BY <1>2 DEF FloorIn
<1>3. ASSUME mode = "decode", gate \in {"open", "plan", "trim"} PROVE Filled(i)
  BY <1>3 DEF FloorIn
<1>4. ASSUME live' = live, Filled(i) PROVE Filled(i)'
  BY <1>4, FilledMore
<1>5. ASSUME NEW A, live' = Released(A), \A a \in A : a.class # "Expert", Filled(i)
      PROVE  Filled(i)'
  BY <1>5, FilledReleased
<1>6. ASSUME NEW a \in live, GiveBack(a) PROVE Filled(i)'
  <2>1. UNCHANGED <<mode, gate, cursor, goal>> /\ live' = live \ {a} /\ ~a.held
    BY <1>6 DEF GiveBack
  <2>2. Filled(i)
    BY <2>1, <1>2
  <2> QED
    BY <2>1, <2>2 DEF Filled
<1>7. ASSUME NEW a \in live, CloseWork(a) PROVE Filled(i)'
  BY <1>2, <1>5, <1>7 DEF CloseWork
<1>8. ASSUME NEW k \in Sessions, CloseSegment(k) \/ TrimSegment(k) PROVE Filled(i)'
  <2>1. PICK a \in live : a.owner = k /\ live' = Released({a})
    BY <1>8 DEF CloseSegment, TrimSegment, DropSegment
  <2>2. a.class # "Expert"
    BY <2>1, ArenaAssumption DEF ArenaAssumption, LiveOk, Proper
  <2>3. UNCHANGED <<mode, gate, cursor, goal>>
    BY <1>8 DEF CloseSegment, TrimSegment
  <2> QED
    BY <2>1, <2>2, <2>3, <1>2, <1>5
<1>9. ASSUME NEW k \in Sessions, DropReservation(k) PROVE Filled(i)'
  BY <1>2, <1>4, <1>9 DEF DropReservation
<1>10. ASSUME NEW k \in Sessions, ReserveKv(k) \/ PlanGrow(k) PROVE Filled(i)'
  <2>1. mode' = mode /\ gate = "plan" /\ live' = live
    BY <1>10 DEF ReserveKv, PlanGrow
  <2> QED
    BY <2>1, <1>3, <1>4
<1>11. ASSUME NEW n \in WorkSizes, StartWork(n) PROVE Filled(i)'
  BY <1>3, <1>4, <1>11 DEF StartWork
<1>12. ASSUME EnterDecode, gate = "open", cursor' = cursor PROVE Filled(i)'
  <2>1. CASE mode = "decode"
    <3> DEFINE A == {a \in live : a.class = "Prefill"}
    <3>1. Filled(i)
      BY <1>3, <1>12, <2>1
    <3>2. live' = Released(A) /\ \A a \in A : a.class # "Expert"
      BY <1>12 DEF EnterDecode
    <3> HIDE DEF A
    <3> QED
      BY <3>1, <3>2, <1>5
  <2>2. CASE mode = "prefill"
    <3>1. gate' = "restore" /\ cursor' = 1
      BY <1>12, <2>2 DEF EnterDecode, CtlOk
    <3> QED
      BY <3>1, <1>1
  <2> QED
    BY <2>1, <2>2 DEF CtlOk
<1>13. ASSUME NEW k \in Sessions, NEW n \in 1..MaxSegs, StartGrow(k, n) PROVE Filled(i)'
  BY <1>12, <1>13 DEF StartGrow
<1>14. CASE StartDecode
  BY <1>12, <1>14 DEF StartDecode
<1>15. CASE StartRing \/ StartRestore
  BY <1>3, <1>4, <1>15 DEF StartRing, StartRestore
<1>16. CASE RestoreSlot
  <2>1. mode = "decode" /\ gate = "restore" /\ gate' = "restore" /\ cursor' = cursor + 1
        /\ cursor \in Directory
    BY <1>16 DEF RestoreSlot
  <2>2. cursor \in Nat
    BY <2>1, ArenaAssumption, FS_CardinalityType DEF ArenaAssumption
  <2>3. CASE i = cursor
    BY <1>16, <2>1, <2>3, FloorRestored
  <2>4. CASE i < cursor
    <3>1. Filled(i)
      BY <2>1, <2>4 DEF FloorIn
    <3>2. live \subseteq live'
      BY <1>16 DEF RestoreSlot
    <3> QED
      BY <3>1, <3>2, FilledMore
  <2> QED
    BY <1>0, <2>1, <2>2, <2>3, <2>4
<1>17. CASE EndRestore
  <2>1. mode = "decode" /\ gate = "restore" /\ cursor \notin Directory /\ live' = live
    BY <1>17 DEF EndRestore
  <2>2. Directory = 1..Cardinality(Directory) /\ Cardinality(Directory) \in Nat
        /\ cursor \in 1..(Cardinality(Directory) + 1)
    BY ArenaAssumption, FS_CardinalityType DEF ArenaAssumption, CtlOk
  <2>3. i < cursor
    BY <1>0, <2>1, <2>2
  <2>4. Filled(i)
    BY <2>1, <2>3 DEF FloorIn
  <2> QED
    BY <2>1, <2>4, <1>4
<1>18. CASE PlanWork \/ PlanRing
  BY <1>3, <1>4, <1>18 DEF PlanWork, PlanRing
<1>19. CASE Retire
  <2>1. /\ mode = "decode" /\ gate = "retire" /\ goal.class # "Prefill"
        /\ live' = Released({a \in Experts : a.owner = Min(plan.victims)})
        /\ plan.victims # {}
    BY <1>19 DEF Retire
  <2>2. Filled(i)
    BY <2>1 DEF FloorIn
  <2>3. Min(plan.victims) \in plan.victims
    <3>1. plan.victims \in SUBSET Nat
      <4>1. plan.victims \subseteq Directory
        BY DEF CtlOk, Plans
      <4> QED
        BY <4>1, ArenaAssumption, FS_CardinalityType DEF ArenaAssumption
    <3> QED
      BY <2>1, <3>1, MinIn
  <2>4. Min(plan.victims) # i
    BY <2>1, <2>3 DEF PlanOk
  <2> QED
    BY <2>1, <2>2, <2>4, FilledReleased
<1>20. CASE Commit
  <2>1. gate = "retire" /\ cursor = 1 /\ cursor' = cursor
    BY <1>20 DEF Commit, CtlOk
  <2>2. CASE Claimable(plan.ranges)
    <3>1. goal.class # "Prefill" /\ mode = "decode" /\ live \subseteq live'
      BY <1>20, <2>2 DEF Commit
    <3>2. Filled(i)
      BY <3>1, <2>1 DEF FloorIn
    <3> QED
      BY <3>1, <3>2, FilledMore
  <2>3. CASE ~Claimable(plan.ranges)
    <3>1. gate' = "restore"
      BY <1>20, <2>3 DEF Commit
    <3> QED
      BY <3>1, <2>1, <1>1
  <2> QED
    BY <2>2, <2>3
<1>21. ASSUME NEW k \in Sessions, StartTrim(k) \/ EndTrim(k) PROVE Filled(i)'
  <2>1. mode' = mode /\ gate \in {"open", "trim"} /\ live' = live
    BY <1>21 DEF StartTrim, EndTrim
  <2> QED
    BY <2>1, <1>3, <1>4
<1>22. CASE UNCHANGED vars
  BY <1>2, <1>4, <1>22 DEF vars
<1> QED
  BY <1>6, <1>7, <1>8, <1>9, <1>10, <1>11, <1>13, <1>14, <1>15, <1>16, <1>17, <1>18, <1>19, <1>20,
     <1>21, <1>22 DEF Next
-----------------------------------------------------------------------------
(* OneOwner and OwnBack, step by step.                                     *)

\* Nothing that is lent is part of a claimable batch.
LEMMA ClaimIsFresh ==
  ASSUME LiveOk, Tile, NEW R \in SUBSET Cuts, Claimable(R), NEW a \in live
  PROVE  a.lease # R
<1>1. Tiling(free, Ranges(live)) /\ Apart(R) /\ \A r \in R : \E f \in free : Within(r, f)
  BY DEF Tile, Claimable, Apart
<1>2. R \cap Ranges(live) = {}
  BY <1>1, TakeTiles
<1>3. a.r \in a.lease /\ a.r \in Ranges(live)
  BY DEF LiveOk, Proper, Ranges
<1> QED
  BY <1>2, <1>3

\* A claimed batch has one owner and a lease of its own.
LEMMA BatchOwned ==
  ASSUME LiveOk, Tile, OneOwner, NEW R \in SUBSET Cuts, Claimable(R), NEW kind, NEW who,
         live' = live \cup Batch(R, kind, who)
  PROVE  OneOwner'
<1>1. \A b \in Batch(R, kind, who) : b.owner = who /\ b.lease = R
  BY BatchIs
<1>2. \A a \in live : a.lease # R
  BY ClaimIsFresh
<1> QED
  BY <1>1, <1>2 DEF OneOwner

\* The handles of a lease stay with one owner.
LEMMA OneOwnerNext ==
  ASSUME LiveOk, Tile, CtlOk, PlanOk, OneOwner, [Next]_vars
  PROVE  OneOwner'
<1>1. CASE Fewer
  BY <1>1 DEF Fewer, OneOwner
<1>2. CASE live' = live
  BY <1>2 DEF OneOwner
<1>3. CASE RestoreSlot
  <2>1. PICK i, R : i = cursor /\ R = {Slots[cursor].r}
    OBVIOUS
  <2>2. R \in SUBSET Cuts
    BY <1>3, <2>1, SlotRange DEF RestoreSlot
  <2>3. live' = live \/ (Claimable(R) /\ live' = live \cup Batch(R, "Expert", i))
    BY <1>3, <2>1 DEF RestoreSlot
  <2> QED
    BY <1>2, <2>2, <2>3, BatchOwned
<1>4. CASE Commit
  <2>1. PICK Q, c, o : Q = plan.ranges /\ c = goal.class /\ o = goal.owner
    OBVIOUS
  <2>2. Q \in SUBSET Cuts
    BY <2>1 DEF CtlOk, Plans
  <2>3. live' = live \/ (Claimable(Q) /\ live' = live \cup Batch(Q, c, o))
    BY <1>4, <2>1 DEF Commit
  <2> QED
    BY <1>2, <2>2, <2>3, BatchOwned
<1> QED
  BY <1>1, <1>3, <1>4, LiveStep

\* A step that drops nothing of a session's.
LEMMA ReturnedKept ==
  ASSUME OneOwner, NEW k \in Sessions, Returned(k),
         \A b \in live' : b.owner = k /\ ~b.held =>
            \E a \in live : a.owner = k /\ a.lease = b.lease /\ ~a.held,
         \A a \in live : a.owner = k /\ a.held =>
            \E b \in live' : b.lease = a.lease /\ b.held
  PROVE  Returned(k)'
<1> SUFFICES ASSUME NEW b \in live', b.owner = k, ~b.held
             PROVE  \E c \in live' : c.lease = b.lease /\ c.held
  BY DEF Returned
<1>1. PICK a \in live : a.owner = k /\ a.lease = b.lease /\ ~a.held
  OBVIOUS
<1>2. PICK d \in live : d.lease = a.lease /\ d.held
  BY <1>1 DEF Returned
<1>3. d.owner = k
  BY <1>1, <1>2 DEF OneOwner
<1>4. PICK c \in live' : c.lease = d.lease /\ c.held
  BY <1>2, <1>3
<1> QED
  BY <1>1, <1>2, <1>4

\* Releasing what others hold.
LEMMA ReturnedReleased ==
  ASSUME LiveOk, OneOwner, NEW k \in Sessions, Returned(k), NEW A, live' = Released(A),
         \A a \in A : a.owner # k
  PROVE  Returned(k)'
<1>0. live \subseteq Allocations
  BY DEF LiveOk
<1>1. ASSUME NEW b \in live', b.owner = k, ~b.held
      PROVE  \E a \in live : a.owner = k /\ a.lease = b.lease /\ ~a.held
  <2>1. PICK a \in live : /\ b.owner = a.owner /\ b.lease = a.lease
                          /\ b.held = (a.held /\ a \notin A)
    BY <1>0, ReleasedIs
  <2>2. a \notin A
    BY <1>1, <2>1
  <2>3. ~a.held
    BY <1>1, <2>1, <2>2
  <2> QED
    BY <1>1, <2>1, <2>3
<1>2. ASSUME NEW a \in live, a.owner = k, a.held
      PROVE  \E b \in live' : b.lease = a.lease /\ b.held
  <2>1. a \notin A
    BY <1>2
  <2>2. PICK b \in live' : b.lease = a.lease /\ b.held = (a.held /\ a \notin A)
    BY <1>0, ReleasedIs
  <2>3. b.held
    BY <1>2, <2>1, <2>2
  <2> QED
    BY <2>2, <2>3
<1> QED
  BY <1>1, <1>2, ReturnedKept

\* What a session is given is held.
LEMMA ReturnedBeside ==
  ASSUME OneOwner, NEW k \in Sessions, Returned(k), NEW B, live' = live \cup B,
         \A b \in B : b.held
  PROVE  Returned(k)'
<1>1. ASSUME NEW b \in live', b.owner = k, ~b.held
      PROVE  \E a \in live : a.owner = k /\ a.lease = b.lease /\ ~a.held
  BY <1>1
<1>2. ASSUME NEW a \in live, a.owner = k, a.held
      PROVE  \E b \in live' : b.lease = a.lease /\ b.held
  BY <1>2
<1> QED
  BY <1>1, <1>2, ReturnedKept

\* No session is given up halfway: what it drops is back before it goes on.
LEMMA OwnBackNext ==
  ASSUME LiveOk, KvOk, CtlOk, OneOwner, OwnBack, [Next]_vars
  PROVE  OwnBack'
<1> SUFFICES ASSUME NEW k \in Sessions, ~kv'[k].closing, ~Trimming(k)'
             PROVE  Returned(k)'
  BY DEF OwnBack
<1>0. Nobody # k /\ k \notin Directory
  BY ArenaAssumption DEF ArenaAssumption
<1> DEFINE Free == ~kv[k].closing /\ ~Trimming(k)
<1>1. ASSUME Free PROVE Returned(k)
  BY <1>1 DEF OwnBack
<1>2. ASSUME kv'[k].closing = kv[k].closing, gate # "trim" \/ UNCHANGED <<gate, goal>> PROVE Free
  BY <1>2 DEF Trimming
<1>3. ASSUME live' = live, Returned(k) PROVE Returned(k)'
  BY <1>3 DEF Returned
<1> HIDE DEF Free
<1>4. ASSUME NEW a \in live, GiveBack(a) PROVE Returned(k)'
  <2>1. live' = live \ {a} /\ ~a.held /\ UNCHANGED <<kv, gate, goal>>
    BY <1>4 DEF GiveBack
  <2>2. Returned(k)
    BY <2>1, <1>1, <1>2
  <2>3. \A b \in live' : b \in live
    BY <2>1
  <2>4. \A b \in live : b.held => b \in live'
    BY <2>1
  <2> QED
    BY <2>2, <2>3, <2>4, ReturnedKept
<1>5. ASSUME NEW a \in live, CloseWork(a) PROVE Returned(k)'
  <2>1. live' = Released({a}) /\ a.class = "LlmRuntime" /\ UNCHANGED <<kv, gate, goal>>
    BY <1>5 DEF CloseWork
  <2>2. a.owner # k
    BY <1>0, <2>1 DEF LiveOk, Proper
  <2>3. Returned(k)
    BY <2>1, <1>1, <1>2
  <2> QED
    BY <2>1, <2>2, <2>3, ReturnedReleased
<1>6. ASSUME NEW l \in Sessions, CloseSegment(l) PROVE Returned(k)'
  <2>1. PICK a \in live : a.owner = l /\ live' = Released({a})
    BY <1>6 DEF CloseSegment, DropSegment
  <2>2. kv' = [kv EXCEPT ![l].closing = TRUE] /\ UNCHANGED <<gate, goal>>
    BY <1>6 DEF CloseSegment
  <2>3. l # k /\ kv'[k] = kv[k]
    <3> DEFINE g == [kv[l] EXCEPT !.closing = TRUE]
    <3>1. kv[l] \in Caches /\ kv \in [Sessions -> Caches]
      BY DEF KvOk
    <3>2. g.closing
      BY <3>1 DEF Caches
    <3>3. kv' = [kv EXCEPT ![l] = g]
      BY <2>2
    <3> HIDE DEF g
    <3> QED
      BY <3>1, <3>2, <3>3
  <2>4. Returned(k)
    BY <2>2, <2>3, <1>1, <1>2
  <2> QED
    BY <2>1, <2>3, <2>4, ReturnedReleased
<1>7. ASSUME NEW l \in Sessions, DropReservation(l) PROVE Returned(k)'
  <2>1. /\ live' = live /\ (\A a \in live : a.owner # l) /\ kv' = [kv EXCEPT ![l] = NoKv]
        /\ UNCHANGED <<gate, goal>>
    BY <1>7 DEF DropReservation
  <2>2. CASE l = k
    BY <2>1, <2>2 DEF Returned
  <2>3. CASE l # k
    <3>1. kv'[k] = kv[k]
      BY <2>1, <2>3 DEF KvOk
    <3> QED
      BY <2>1, <3>1, <1>1, <1>2, <1>3
  <2> QED
    BY <2>2, <2>3
<1>8. ASSUME NEW l \in Sessions, ReserveKv(l) PROVE Returned(k)'
  <2>1. live' = live /\ gate = "plan" /\ (kv' = kv \/ \E at : kv' = [kv EXCEPT ![l].at = at])
    BY <1>8 DEF ReserveKv
  <2>2. kv'[k].closing = kv[k].closing
    <3>1. CASE kv' = kv
      BY <3>1
    <3>2. ASSUME NEW at, kv' = [kv EXCEPT ![l].at = at] PROVE kv'[k].closing = kv[k].closing
      <4> DEFINE g == [kv[l] EXCEPT !.at = at]
      <4>1. kv[l] \in Caches /\ kv \in [Sessions -> Caches]
        BY DEF KvOk
      <4>2. g.closing = kv[l].closing
        BY <4>1 DEF Caches
      <4>3. kv' = [kv EXCEPT ![l] = g]
        BY <3>2
      <4> HIDE DEF g
      <4> QED
        BY <4>1, <4>2, <4>3
    <3> QED
      BY <2>1, <3>1, <3>2
  <2> QED
    BY <2>1, <2>2, <1>1, <1>2, <1>3
<1>9. ASSUME NEW l \in Sessions, PlanGrow(l) PROVE Returned(k)'
  BY <1>1, <1>2, <1>3, <1>9 DEF PlanGrow
<1>10. ASSUME NEW n \in WorkSizes, StartWork(n) PROVE Returned(k)'
  BY <1>1, <1>2, <1>3, <1>10 DEF StartWork
<1>11. ASSUME EnterDecode, kv' = kv, gate = "open" PROVE Returned(k)'
  <2> DEFINE A == {a \in live : a.class = "Prefill"}
  <2>1. live' = Released(A)
    BY <1>11 DEF EnterDecode
  <2>2. \A a \in A : a.owner # k
    BY <1>0 DEF LiveOk, Proper
  <2> HIDE DEF A
  <2>3. Returned(k)
    BY <1>1, <1>2, <1>11
  <2> QED
    BY <2>1, <2>2, <2>3, ReturnedReleased
<1>12. ASSUME NEW l \in Sessions, NEW n \in 1..MaxSegs, StartGrow(l, n) PROVE Returned(k)'
  BY <1>11, <1>12 DEF StartGrow
<1>13. CASE StartDecode
  BY <1>11, <1>13 DEF StartDecode
<1>14. CASE StartRing \/ StartRestore \/ EndRestore \/ PlanWork \/ PlanRing
  BY <1>1, <1>2, <1>3, <1>14 DEF StartRing, StartRestore, EndRestore, PlanWork, PlanRing
<1>15. CASE RestoreSlot
  <2> DEFINE B == Batch({Slots[cursor].r}, "Expert", cursor)
  <2>1. \A b \in B : b.held
    BY BatchIs
  <2>2. live' = live \/ live' = live \cup B
    BY <1>15 DEF RestoreSlot
  <2> HIDE DEF B
  <2>3. Returned(k)
    BY <1>1, <1>2, <1>15 DEF RestoreSlot
  <2> QED
    BY <2>1, <2>2, <2>3, <1>3, ReturnedBeside
<1>16. CASE Retire
  <2>1. PICK i : live' = Released({a \in Experts : a.owner = i})
    BY <1>16 DEF Retire
  <2> DEFINE A == {a \in Experts : a.owner = i}
  <2>2. \A a \in A : a.owner # k
    BY <1>0 DEF LiveOk, Proper, Experts
  <2>3. live' = Released(A)
    BY <2>1
  <2> HIDE DEF A
  <2>4. Returned(k)
    BY <1>1, <1>2, <1>16 DEF Retire
  <2> QED
    BY <2>2, <2>3, <2>4, ReturnedReleased
<1>17. CASE Commit
  <2> DEFINE B == Batch(plan.ranges, goal.class, goal.owner)
  <2>1. \A b \in B : b.held
    BY BatchIs
  <2>2. live' = live \/ live' = live \cup B
    BY <1>17 DEF Commit
  <2> HIDE DEF B
  <2>3. kv'[k].closing = kv[k].closing
    <3>1. kv' = kv \/ kv' = [kv EXCEPT ![goal.owner].depth = goal.size]
      BY <1>17 DEF Commit
    <3>2. CASE kv' = kv
      BY <3>2
    <3>3. CASE kv' = [kv EXCEPT ![goal.owner].depth = goal.size]
      <4>1. PICK l, n : l = goal.owner /\ n = goal.size
        OBVIOUS
      <4> DEFINE g == [kv[l] EXCEPT !.depth = n]
      <4>2. kv \in [Sessions -> Caches] /\ kv' = [kv EXCEPT ![l] = g]
        BY <3>3, <4>1 DEF KvOk
      <4>3. l = k => g.closing = kv[k].closing
        <5>1. kv[k] \in Caches
          BY <4>2
        <5> QED
          BY <5>1 DEF Caches
      <4> HIDE DEF g
      <4> QED
        BY <4>2, <4>3
    <3> QED
      BY <3>1, <3>2, <3>3
  <2>4. Returned(k)
    BY <1>1, <1>2, <1>17, <2>3 DEF Commit
  <2> QED
    BY <2>1, <2>2, <2>4, <1>3, ReturnedBeside
<1>18. ASSUME NEW l \in Sessions, StartTrim(l) PROVE Returned(k)'
  <2>1. live' = live /\ gate = "open" /\ kv' = [kv EXCEPT ![l].depth = 1]
    BY <1>18 DEF StartTrim
  <2>2. kv'[k].closing = kv[k].closing
    <3> DEFINE g == [kv[l] EXCEPT !.depth = 1]
    <3>1. kv[l] \in Caches /\ kv \in [Sessions -> Caches]
      BY DEF KvOk
    <3>2. g.closing = kv[l].closing
      BY <3>1 DEF Caches
    <3>3. kv' = [kv EXCEPT ![l] = g]
      BY <2>1
    <3> HIDE DEF g
    <3> QED
      BY <3>1, <3>2, <3>3
  <2> QED
    BY <2>1, <2>2, <1>1, <1>2, <1>3
<1>19. ASSUME NEW l \in Sessions, TrimSegment(l) PROVE Returned(k)'
  <2>1. PICK a \in live : a.owner = l /\ live' = Released({a})
    BY <1>19 DEF TrimSegment, DropSegment
  <2>2. gate = "trim" /\ goal.owner = l /\ UNCHANGED <<kv, gate, goal>>
    BY <1>19 DEF TrimSegment
  <2>3. l # k
    BY <2>2 DEF Trimming
  <2>4. Returned(k)
    BY <2>2, <1>1, <1>2
  <2> QED
    BY <2>1, <2>3, <2>4, ReturnedReleased
<1>20. ASSUME NEW l \in Sessions, EndTrim(l) PROVE Returned(k)'
  <2>1. gate = "trim" /\ goal.owner = l /\ Returned(l) /\ live' = live /\ kv' = kv
    BY <1>20 DEF EndTrim
  <2>2. CASE l = k
    BY <2>1, <2>2, <1>3
  <2>3. CASE l # k
    <3>1. Free
      BY <2>1, <2>3 DEF Free, Trimming
    <3> QED
      BY <2>1, <3>1, <1>1, <1>3
  <2> QED
    BY <2>2, <2>3
<1>21. CASE UNCHANGED vars
  BY <1>1, <1>2, <1>3, <1>21 DEF vars
<1> QED
  BY <1>4, <1>5, <1>6, <1>7, <1>8, <1>9, <1>10, <1>12, <1>13, <1>14, <1>15, <1>16, <1>17, <1>18,
     <1>19, <1>20, <1>21 DEF Next
-----------------------------------------------------------------------------
(* The invariant and what follows from it.                                 *)

\* The arena as built satisfies the invariant.
LEMMA ArenaInvInit ==
  ASSUME Init
  PROVE  ArenaInv
<1>1. \A a \in live : a.class = "Expert"
  <2> TAKE a \in live
  <2>1. PICK i \in Directory : a \in Batch({Slots[i].r}, "Expert", i)
    BY DEF Init
  <2> QED
    BY <2>1, BatchIs
<1>2. PlanOk /\ WorkLive /\ RingGone
  BY <1>1 DEF Init, PlanOk, WorkLive, RingGone
<1>3. \A a \in live : Proper(a) /\ a.lease = {a.r} /\ a.held
  <2> TAKE a \in live
  <2>1. PICK i \in Directory : a \in Batch({Slots[i].r}, "Expert", i)
    BY DEF Init
  <2> QED
    BY <2>1, BatchIs, TileInit DEF LiveOk
<1>4. OneOwner
  <2> SUFFICES ASSUME NEW a \in live, NEW b \in live, a.lease = b.lease PROVE a.owner = b.owner
    BY DEF OneOwner
  <2>1. a.r = b.r
    BY <1>3
  <2> QED
    BY <2>1, TileInit DEF LiveOk
<1>5. OwnBack
  BY <1>3 DEF OwnBack, Returned
<1> QED
  BY <1>2, <1>4, <1>5, TileInit, KvInit, CtlInit, KvLiveInit, FloorInInit DEF ArenaInv

\* Every step keeps every part of the invariant.
LEMMA ArenaInvNext ==
  ASSUME ArenaInv, [Next]_vars
  PROVE  ArenaInv'
<1>1. LiveOk' /\ Tile'
  BY TileNext DEF ArenaInv
<1>2. KvOk'
  BY KvNext DEF ArenaInv
<1>3. CtlOk'
  BY CtlNext DEF ArenaInv
<1>4. PlanOk'
  BY PlanNext DEF ArenaInv
<1>5. KvLive'
  BY KvLiveNext DEF ArenaInv
<1>6. WorkLive'
  BY WorkLiveNext DEF ArenaInv
<1>7. RingGone'
  BY RingGoneNext DEF ArenaInv
<1>8. FloorIn'
  BY FloorInNext DEF ArenaInv
<1>9. OneOwner'
  BY OneOwnerNext DEF ArenaInv
<1>10. OwnBack'
  BY OwnBackNext DEF ArenaInv
<1> QED
  BY <1>1, <1>2, <1>3, <1>4, <1>5, <1>6, <1>7, <1>8, <1>9, <1>10 DEF ArenaInv

\* The inductive invariant holds of every reachable state of the arena.
THEOREM ArenaKeepsItsInvariant == Spec => []ArenaInv
<1>1. Init => ArenaInv
  BY ArenaInvInit
<1>2. ArenaInv /\ [Next]_vars => ArenaInv'
  BY ArenaInvNext
<1> QED
  BY <1>1, <1>2, PTL DEF Spec

\* The invariant implies the type invariant.
LEMMA InvTyped ==
  ASSUME ArenaInv
  PROVE  TypeOK
<1>1. free \subseteq Cuts
  BY DEF ArenaInv, Tile, Tiling
<1>2. ASSUME NEW a \in live
      PROVE  /\ a.r \in a.lease /\ a.lease \subseteq Cuts /\ a.held \in BOOLEAN
             /\ \/ a.class = "Expert" /\ a.owner \in Directory
                \/ a.class = "KvCache" /\ a.owner \in Sessions
                \/ a.class \in {"LlmRuntime", "Prefill"} /\ a.owner = Nobody
  <2>1. a \in Allocations /\ Proper(a)
    BY DEF ArenaInv, LiveOk
  <2>2. a.lease \in SUBSET Cuts /\ a.held \in BOOLEAN
    BY <2>1 DEF Allocations
  <2> QED
    BY <2>1, <2>2 DEF Proper
<1>3. ASSUME NEW k \in Sessions
      PROVE  /\ Len(kv[k].at) \in {0, MaxSegs} /\ kv[k].depth \in 0..Len(kv[k].at)
             /\ \A i \in DOMAIN kv[k].at : kv[k].at[i] \in Cuts
             /\ kv[k].closing \in BOOLEAN
  <2>0. KvOk
    BY DEF ArenaInv
  <2>1. CASE kv[k].at = <<>>
    BY <2>0, <2>1, CacheIs
  <2>2. CASE kv[k].at # <<>>
    BY <2>0, <2>2, CacheIs, LayoutIs
  <2> QED
    BY <2>1, <2>2
<1>4. ASSUME NEW k \in Sessions, ~kv[k].closing, ~Trimming(k)
      PROVE  {a.r : a \in {b \in live : b.owner = k /\ b.held}}
                = {kv[k].at[i] : i \in 1..kv[k].depth}
  <2>1. SessionLive(k)
    BY DEF ArenaInv, KvLive
  <2>2. \A a \in live : a.owner = k => a.class = "KvCache"
    BY <1>2, ArenaAssumption DEF ArenaAssumption
  <2>3. ASSUME NEW a \in live, a.owner = k, a.held PROVE \E i \in 1..kv[k].depth : a.r = kv[k].at[i]
    <3>1. PICK i \in 1..MaxSegs : a.r = kv[k].at[i] /\ i <= kv[k].depth
      BY <2>1, <2>2, <2>3, <1>4 DEF SessionLive
    <3>2. kv[k].depth \in 0..MaxSegs /\ MaxSegs \in Nat
      BY CacheIs, ArenaAssumption DEF ArenaInv, ArenaAssumption
    <3>3. i \in 1..kv[k].depth
      BY <3>1, <3>2
    <3> QED
      BY <3>1, <3>3
  <2>4. ASSUME NEW i \in 1..kv[k].depth
        PROVE  \E a \in live : a.owner = k /\ a.held /\ a.r = kv[k].at[i]
    BY <2>1, <1>4 DEF SessionLive
  <2> QED
    BY <2>3, <2>4
<1>5. /\ changed \in BOOLEAN /\ mode \in {"decode", "prefill"}
      /\ gate \in {"open", "restore", "plan", "retire", "trim"}
      /\ cursor \in 1..(Cardinality(Directory) + 1)
      /\ goal.class \in {"none", "KvCache", "Trim", "LlmRuntime", "Prefill"}
      /\ goal.owner \in Sessions \cup {Nobody}
      /\ plan.ranges \subseteq Cuts /\ plan.victims \subseteq Directory
  BY DEF ArenaInv, CtlOk, Goals, Plans
<1> QED
  BY <1>1, <1>2, <1>3, <1>4, <1>5 DEF TypeOK

\* Type correctness; in particular the segments that a session holds, when it
\* is neither closed nor trimmed, are exactly its committed coordinates,
\* whatever the others do.
THEOREM ArenaIsTyped == Spec => []TypeOK
<1>1. ArenaInv => TypeOK
  BY InvTyped
<1> QED
  BY <1>1, ArenaKeepsItsInvariant, PTL

\* The invariant implies Tiled: no range is both free and lent, or lent twice.
LEMMA InvTiled ==
  ASSUME ArenaInv
  PROVE  Tiled
<1> DEFINE Pieces == free \cup {a.r : a \in live}
<1>1. /\ LiveOk /\ Pieces = free \cup Ranges(live) /\ Tiling(free, Ranges(live))
  BY DEF ArenaInv, Tile, Ranges
<1>2. /\ Pieces \subseteq Cuts /\ Apart(Pieces) /\ Covers(Pieces) /\ Sharded(Pieces)
      /\ Coalesced(free) /\ free \cap Ranges(live) = {}
  <2> HIDE DEF Pieces
  <2> QED
    BY <1>1 DEF Tiling
<1>3. \A a \in live : a.r \in Ranges(live)
  BY DEF Ranges
<1>4. \A a \in live : a.r \notin free /\ \A b \in live : a.r = b.r => a = b
  BY <1>1, <1>2, <1>3 DEF LiveOk
<1> HIDE DEF Pieces
<1>5. CellsIn(Pieces) = 0..(Total - 1)
  <2>1. \A p \in Pieces : \A c \in CellsOf(p) : c \in 0..(Total - 1)
    <3> TAKE p \in Pieces
    <3> TAKE c \in CellsOf(p)
    <3>1. /\ p.from \in Nat /\ p.to \in Nat /\ p.to <= Total /\ Total \in Nat
          /\ c \in p.from..(p.to - 1)
      BY <1>2, CutFields, ArenaAssumption DEF CellsOf, ArenaAssumption
    <3> QED
      BY <3>1
  <2>2. \A c \in 0..(Total - 1) : \E p \in Pieces : c \in CellsOf(p)
    BY <1>2 DEF Covers
  <2> QED
    BY <2>1, <2>2 DEF CellsIn
<1>6. /\ \A p, q \in Pieces : p # q => ~Overlap(p, q)
      /\ \A p \in Pieces : \E s \in Shards : Within(p, s)
      /\ \A f, g \in free : f.to = g.from => \E s \in Shards : s.to = f.to
  BY <1>2 DEF Apart, Sharded, Coalesced
<1> QED
  BY <1>4, <1>5, <1>6 DEF Tiled, Pieces

\* The free lists and the allocations tile every shard, maximally coalesced,
\* however claims, restores and drops interleave (Drop for UnifiedAllocation
\* against commit_claim and restore_expert_slots).
THEOREM ArenaIsTiled == Spec => []Tiled
<1>1. ArenaInv => Tiled
  BY InvTiled
<1> QED
  BY <1>1, ArenaKeepsItsInvariant, PTL

\* Once the victims of a plan are retired, its ranges can be claimed: nobody
\* invalidates a plan between planning and commit (UnifiedClaimPlan).
THEOREM PlansAreNeverStale == Spec => []NeverStale
<1>1. ArenaInv => NeverStale
  BY PlanIsClaimable DEF ArenaInv, NeverStale
<1> QED
  BY <1>1, ArenaKeepsItsInvariant, PTL

\* The invariant implies that frozen coordinates not yet backed are blocked by
\* experts, by Prefill and by what a trim has left alone.
LEMMA InvFrozen ==
  ASSUME ArenaInv
  PROVE  FrozenCoordinates
<1> SUFFICES ASSUME NEW k \in Sessions, NEW i \in (kv[k].depth + 1)..Len(kv[k].at),
                    NEW a \in live, Overlap(a.r, kv[k].at[i]), a.class # "Expert"
             PROVE  \/ a.class = "Prefill" /\ ~Growing(k)
                    \/ /\ a.owner = k /\ ~a.held
                       /\ Growing(k) => \E b \in live : b.lease = a.lease /\ b.held
                    \/ a.owner = k /\ Trimming(k)
  BY DEF FrozenCoordinates, Uncommitted
<1>0. LiveOk /\ KvOk /\ CtlOk /\ KvLive /\ WorkLive /\ RingGone /\ OwnBack
  BY DEF ArenaInv
<1>1. kv[k].depth \in 0..MaxSegs /\ MaxSegs \in Nat /\ FloorFrom \in Nat /\ FloorTo \in Nat
      /\ FloorFrom <= FloorTo
  BY <1>0, CacheIs, ArenaAssumption DEF ArenaAssumption
<1>2. kv[k].at # <<>> /\ i \in 1..MaxSegs
  <2>1. CASE kv[k].at = <<>>
    <3>1. Len(kv[k].at) = 0
      BY <2>1, <1>0, CacheIs
    <3> QED
      BY <3>1, <1>1
  <2>2. CASE kv[k].at # <<>>
    <3>1. Len(kv[k].at) = MaxSegs
      BY <2>2, <1>0, CacheIs, LayoutIs
    <3> QED
      BY <2>2, <3>1, <1>1
  <2> QED
    BY <2>1, <2>2
<1>3. kv[k].at[i].to <= FloorFrom /\ kv[k].at[i] \in Cuts
  BY <1>0, <1>2, CacheIs, LayoutIs DEF KvOk
<1>4. a \in Allocations /\ a.r \in Cuts /\ Proper(a)
  BY <1>0 DEF LiveOk, Allocations
<1>5. a.class # "LlmRuntime"
  <2> SUFFICES ASSUME a.class = "LlmRuntime" PROVE FALSE
    OBVIOUS
  <2>1. FloorTo <= a.r.from
    BY <1>0 DEF WorkLive
  <2> QED
    BY <2>1, <1>1, <1>3, <1>4, CutFields DEF Overlap
<1>6. CASE a.class = "KvCache"
  <2>1. PICK l \in Sessions : a.owner = l
    BY <1>4, <1>6 DEF Proper
  <2>2. kv[l].at # <<>>
    BY <2>1, <1>0, <1>6 DEF KvLive, SessionLive
  <2>3. PICK j \in 1..MaxSegs : a.r = kv[l].at[j] /\ (a.held => j <= kv[l].depth \/ Trimming(l))
    BY <2>1, <1>0, <1>6 DEF KvLive, SessionLive
  <2>4. l = k /\ j = i
    BY <2>2, <2>3, <1>0, <1>2 DEF KvOk
  <2>5. a.held => Trimming(k)
    BY <2>3, <2>4, <1>1
  <2>6. CASE Trimming(k)
    BY <2>1, <2>4, <2>6
  <2>7. CASE ~Trimming(k)
    <3>1. a.owner = k /\ ~a.held
      BY <2>1, <2>4, <2>5, <2>7
    <3>2. ASSUME Growing(k) PROVE \E b \in live : b.lease = a.lease /\ b.held
      <4>1. gate = "plan" /\ goal.owner = k
        BY <3>2 DEF Growing
      <4>2. goal.class = "KvCache" /\ ~kv[k].closing
        BY <4>1, <1>0 DEF CtlOk
      <4>3. Returned(k)
        BY <4>2, <2>7, <1>0 DEF OwnBack
      <4> QED
        BY <3>1, <4>3 DEF Returned
    <3> QED
      BY <3>1, <3>2
  <2> QED
    BY <2>6, <2>7
<1>7. CASE a.class = "Prefill"
  <2> SUFFICES ASSUME Growing(k) PROVE FALSE
    BY <1>7
  <2>1. gate = "plan" /\ goal.owner = k
    BY DEF Growing
  <2>2. mode = "decode"
    BY <2>1, <1>0 DEF CtlOk
  <2> QED
    BY <2>1, <2>2, <1>0, <1>7 DEF RingGone
<1> QED
  BY <1>4, <1>5, <1>6, <1>7 DEF Proper

\* Nobody else is given the coordinates reserve_kv_layout froze for a session:
\* a growth finds experts there, or its own trimmed ranges that are still
\* leased along with the segments it kept, and nothing else.
THEOREM CoordinatesStayFrozen == Spec => []FrozenCoordinates
<1>1. ArenaInv => FrozenCoordinates
  BY InvFrozen
<1> QED
  BY <1>1, ArenaKeepsItsInvariant, PTL

\* The invariant implies FloorKept: the experts of the floor are enough.
LEMMA InvFloor ==
  ASSUME ArenaInv
  PROVE  FloorKept
<1> SUFFICES ASSUME mode = "decode", gate \in {"open", "plan"}, NEW p \in DOMAIN MinEnabled
             PROVE  Cardinality(Enabled(p)) >= MinEnabled[p]
  BY DEF FloorKept
<1> DEFINE F == {i \in Directory : /\ Slots[i].pool = p
                                   /\ Within(Slots[i].r, Cut(FloorFrom, FloorTo))}
           E == Enabled(p)
<1>0. /\ LiveOk /\ IsFiniteSet(Directory)
      /\ MinEnabled[p] \in Nat /\ Cardinality(F) >= MinEnabled[p]
  BY ArenaAssumption DEF ArenaInv, ArenaAssumption
<1>1. \A a \in E : a \in live /\ a.class = "Expert" /\ a.owner \in Directory /\ a.r = Slots[a.owner].r
  BY <1>0 DEF Enabled, Experts, LiveOk, Proper
<1>2. \A i \in F : i \in Directory /\ \E a \in E : a.owner = i
  <2> TAKE i \in F
  <2>1. i \in FloorSlots /\ Slots[i].pool = p
    BY DEF FloorSlots
  <2>2. Filled(i)
    BY <2>1 DEF ArenaInv, FloorIn
  <2>3. PICK a \in live : a.class = "Expert" /\ a.owner = i /\ a.held
    BY <2>2 DEF Filled
  <2>4. a \in E
    BY <2>1, <2>3 DEF Enabled, Experts
  <2> QED
    BY <2>3, <2>4
<1> HIDE DEF E, F
\* One expert per slot: the enabled experts are finitely many ...
<1>3. IsFiniteSet(E)
  <2> DEFINE f == [a \in E |-> a.owner]
  <2>1. f \in [E -> Directory]
    BY <1>1
  <2>2. \A a, b \in E : f[a] = f[b] => a = b
    BY <1>0, <1>1 DEF LiveOk
  <2> HIDE DEF f
  <2>3. f \in Injection(E, Directory)
    BY <2>1, <2>2 DEF Injection, IsInjective
  <2> QED
    BY <2>3, <1>0, FS_Injection
\* ... and at least as many as the slots of the floor.
<1>4. Cardinality(F) <= Cardinality(E)
  <2> DEFINE f == [i \in F |-> CHOOSE a \in E : a.owner = i]
  <2>1. \A i \in F : f[i] \in E /\ f[i].owner = i
    BY <1>2
  <2>2. f \in [F -> E]
    BY <2>1
  <2> HIDE DEF f
  <2>3. \A i, j \in F : f[i] = f[j] => i = j
    BY <2>1
  <2>4. f \in Injection(F, E)
    BY <2>2, <2>3 DEF Injection, IsInjective
  <2> QED
    BY <2>4, <1>3, FS_Injection
<1>5. Cardinality(F) \in Nat /\ Cardinality(E) \in Nat
  <2>1. F \subseteq Directory
    BY <1>2
  <2>2. IsFiniteSet(F)
    BY <2>1, <1>0, FS_Subset
  <2> QED
    BY <2>2, <1>3, FS_CardinalityType
<1> QED
  BY <1>0, <1>4, <1>5 DEF E

\* Decode never runs with fewer experts of a pool than one dispatch needs.
THEOREM FloorIsKept == Spec => []FloorKept
<1>1. ArenaInv => FloorKept
  BY InvFloor
<1> QED
  BY <1>1, ArenaKeepsItsInvariant, PTL

-----------------------------------------------------------------------------
(* The arena implements CellLeases: one lease for each batch that still    *)
(* has a range out.                                                        *)

Lent == {a.lease : a \in live}
Left(L) == CellsIn({a.r : a \in {b \in live : b.lease = L}})
Open(L) == \E a \in live : a.lease = L /\ a.held
LeaseOf(L) == [batch |-> CellsIn(L), left |-> Left(L), open |-> Open(L)]
LeaseMap == {LeaseOf(L) : L \in Lent}

\* All Prefill allocations are of one claim.
RingOne == \A a, b \in live : a.class = "Prefill" /\ b.class = "Prefill" => a.lease = b.lease

\* The fields of a lease record.
LEMMA LeaseFields ==
  ASSUME NEW L
  PROVE  LeaseOf(L).batch = CellsIn(L) /\ LeaseOf(L).left = Left(L) /\ LeaseOf(L).open = Open(L)
BY DEF LeaseOf

\* A cell is left of a lease when an allocation of the lease covers it.
LEMMA LeftIs ==
  ASSUME NEW L, NEW c
  PROVE  c \in Left(L) <=> \E a \in live : a.lease = L /\ c \in CellsOf(a.r)
BY DEF Left, CellsIn

\* A cell is lent once.
LEMMA OneTenant ==
  ASSUME LiveOk, Tile, NEW a \in live, NEW b \in live, NEW c,
         c \in CellsOf(a.r), c \in CellsOf(b.r)
  PROVE  a = b
<1>1. a.r \in Cuts /\ b.r \in Cuts
  BY DEF LiveOk, Allocations
<1>2. Overlap(a.r, b.r)
  BY <1>1, CutFields DEF CellsOf, Overlap
<1>3. a.r \in Ranges(live) /\ b.r \in Ranges(live)
  BY DEF Ranges
<1>4. a.r = b.r
  BY <1>2, <1>3 DEF Tile, Tiling, Apart
<1> QED
  BY <1>4 DEF LiveOk

\* A range has cells, and they are cells of the arena.
LEMMA RangeCells ==
  ASSUME NEW r \in Cuts
  PROVE  CellsOf(r) \subseteq 0..(Total - 1) /\ r.from \in CellsOf(r)
<1>1. r.from \in Nat /\ r.to \in Nat /\ r.from < r.to /\ r.to <= Total /\ Total \in Nat
  BY CutFields, ArenaAssumption DEF ArenaAssumption
<1> QED
  BY <1>1 DEF CellsOf

\* What is left of a lease is something, and part of its batch.
LEMMA LeftWithin ==
  ASSUME LiveOk, NEW L \in Lent
  PROVE  /\ Left(L) # {} /\ Left(L) \subseteq CellsIn(L) /\ L \subseteq Cuts
         /\ CellsIn(L) \subseteq 0..(Total - 1)
<1>1. PICK a \in live : a.lease = L
  BY DEF Lent
<1>2. \A b \in live : b.r \in Cuts /\ b.lease \subseteq Cuts /\ b.r \in b.lease
  BY DEF LiveOk, Allocations, Proper
<1>3. a.r.from \in Left(L)
  BY <1>1, <1>2, RangeCells, LeftIs
<1>4. \A c \in Left(L) : c \in CellsIn(L)
  <2> TAKE c \in Left(L)
  <2>1. PICK b \in live : b.lease = L /\ c \in CellsOf(b.r)
    BY LeftIs
  <2> QED
    BY <2>1, <1>2 DEF CellsIn
<1>5. L \subseteq Cuts
  BY <1>1, <1>2
<1>6. CellsIn(L) \subseteq 0..(Total - 1)
  BY <1>5, RangeCells DEF CellsIn
<1> QED
  BY <1>3, <1>4, <1>5, <1>6

\* Different leases have nothing in common, so their records differ.
LEMMA LeasesApart ==
  ASSUME LiveOk, Tile, NEW L \in Lent, NEW M \in Lent, L # M
  PROVE  Left(L) \cap Left(M) = {} /\ LeaseOf(L) # LeaseOf(M)
<1>1. Left(L) \cap Left(M) = {}
  <2> SUFFICES ASSUME NEW c \in Left(L), c \in Left(M) PROVE FALSE
    OBVIOUS
  <2>1. PICK a \in live : a.lease = L /\ c \in CellsOf(a.r)
    BY LeftIs
  <2>2. PICK b \in live : b.lease = M /\ c \in CellsOf(b.r)
    BY LeftIs
  <2> QED
    BY <2>1, <2>2, OneTenant
<1>2. Left(L) # {}
  BY LeftWithin
<1>3. Left(L) # Left(M)
  BY <1>1, <1>2
<1> QED
  BY <1>1, <1>3, LeaseFields

\* A lease record, closed.
LEMMA ClosedRecord ==
  ASSUME NEW x, NEW y, NEW z \in BOOLEAN
  PROVE  [[batch |-> x, left |-> y, open |-> z] EXCEPT !.open = FALSE]
            = [batch |-> x, left |-> y, open |-> FALSE]
<1> DEFINE l == [batch |-> x, left |-> y, open |-> z]
<1>1. l \in [batch : {x}, left : {y}, open : BOOLEAN]
  OBVIOUS
<1>2. l.batch = x /\ l.left = y
  OBVIOUS
<1> HIDE DEF l
<1> DEFINE m == [l EXCEPT !.open = FALSE]
           g == [batch |-> x, left |-> y, open |-> FALSE]
<1>3. m \in [batch : {x}, left : {y}, open : BOOLEAN] /\ m.batch = x /\ m.left = y /\ ~m.open
  BY <1>1, <1>2
<1>4. g \in [batch : {x}, left : {y}, open : BOOLEAN] /\ g.batch = x /\ g.left = y /\ ~g.open
  OBVIOUS
<1> HIDE DEF m, g
<1>5. m.open = g.open
  BY <1>3, <1>4
<1>6. m = g
  BY <1>3, <1>4, <1>5
<1> QED
  BY <1>6 DEF l, m, g

\* Handles of one lease are dropped: the lease may be closed by it.
LEMMA ReleaseCloses ==
  ASSUME LiveOk, Tile, NEW A, NEW K, \A a \in live : a \in A /\ a.held => a.lease = K,
         live' = Released(A)
  PROVE  LeaseMap' = LeaseMap \/ Leases!Close
<1>0. live \subseteq Allocations
  BY DEF LiveOk
<1>1. /\ \A b \in live' : \E a \in live :
           /\ b.r = a.r /\ b.lease = a.lease /\ b.held = (a.held /\ a \notin A)
      /\ \A a \in live : \E b \in live' :
           /\ b.r = a.r /\ b.lease = a.lease /\ b.held = (a.held /\ a \notin A)
  BY <1>0, ReleasedIs
<1>2. Lent' = Lent
  BY <1>1 DEF Lent
<1>3. ASSUME NEW L PROVE Left(L)' = Left(L)
  <2>1. \A c : c \in Left(L)' <=> \E b \in live' : b.lease = L /\ c \in CellsOf(b.r)
    BY DEF Left, CellsIn
  <2>2. \A c : c \in Left(L)' <=> c \in Left(L)
    BY <1>1, <2>1, LeftIs
  <2>3. \A c : c \in Left(L)' => \E R \in {a.r : a \in {b \in live' : b.lease = L}} : c \in CellsOf(R)
    BY DEF Left, CellsIn
  <2> QED
    BY <2>2, Zenon DEF Left, CellsIn
<1>4. ASSUME NEW L, L # K PROVE Open(L)' <=> Open(L)
  <2>1. ASSUME NEW b \in live', b.lease = L, b.held PROVE \E a \in live : a.lease = L /\ a.held
    BY <1>1, <2>1
  <2>2. ASSUME NEW a \in live, a.lease = L, a.held PROVE \E b \in live' : b.lease = L /\ b.held
    <3>1. a \notin A
      BY <1>4, <2>2
    <3> QED
      BY <1>1, <2>2, <3>1
  <2> QED
    BY <2>1, <2>2 DEF Open
<1>5. Open(K)' => Open(K)
  <2>1. ASSUME NEW b \in live', b.lease = K, b.held PROVE \E a \in live : a.lease = K /\ a.held
    BY <1>1, <2>1
  <2> QED
    BY <2>1 DEF Open
<1>6. ASSUME NEW L, Open(L)' <=> Open(L) PROVE LeaseOf(L)' = LeaseOf(L)
  <2>1. Open(L)' = Open(L)
    BY <1>6 DEF Open
  <2> QED
    BY <2>1, <1>3 DEF LeaseOf
<1>7. CASE Open(K)' <=> Open(K)
  <2>1. \A L : LeaseOf(L)' = LeaseOf(L)
    BY <1>4, <1>6, <1>7
  <2> QED
    BY <2>1, <1>2 DEF LeaseMap
<1>8. CASE Open(K) /\ ~Open(K)' /\ K \in Lent
  <2> DEFINE l == LeaseOf(K)
             m == [l EXCEPT !.open = FALSE]
  <2>1. LeaseOf(K)' = m
    <3>1. ~Open(K)' /\ Left(K)' = Left(K)
      BY <1>3, <1>8
    <3>2. Open(K)' = FALSE
      BY <3>1 DEF Open
    <3>3. LeaseOf(K)' = [batch |-> CellsIn(K), left |-> Left(K), open |-> FALSE]
      BY <3>1, <3>2 DEF LeaseOf
    <3>4. m = [batch |-> CellsIn(K), left |-> Left(K), open |-> FALSE]
      <4>1. Open(K) \in BOOLEAN
        BY DEF Open
      <4> QED
        BY <4>1, ClosedRecord DEF LeaseOf
    <3> QED
      BY <3>3, <3>4
  <2>2. \A L \in Lent : L # K => LeaseOf(L)' = LeaseOf(L) /\ LeaseOf(L) # l
    BY <1>4, <1>6, <1>8, LeasesApart
  <2>3. l.open /\ m # l
    <3>1. l.open = Open(K) /\ m.open = FALSE
      BY DEF LeaseOf
    <3> QED
      BY <3>1, <1>8
  <2> HIDE DEF l, m
  <2>4. LeaseMap' = (LeaseMap \ {l}) \cup {m}
    BY <1>2, <1>8, <2>1, <2>2 DEF LeaseMap, l
  <2>5. l \in LeaseMap \ LeaseMap'
    BY <1>8, <2>2, <2>3, <2>4 DEF LeaseMap, l
  <2>6. \E x \in LeaseMap \ LeaseMap' :
          x.open /\ LeaseMap' = (LeaseMap \ {x}) \cup {[x EXCEPT !.open = FALSE]}
    BY <2>3, <2>4, <2>5 DEF m
  <2> QED
    BY <2>6 DEF Leases!Close, LeaseMap, LeaseOf, Lent, Left, Open
<1>9. Open(K) => K \in Lent
  BY DEF Open, Lent
<1> QED
  BY <1>5, <1>7, <1>8, <1>9

\* A range of a closed lease comes back.
LEMMA ReturnGivesBack ==
  ASSUME LiveOk, Tile, NEW a \in live, GiveBack(a)
  PROVE  Leases!GiveBack
<1> DEFINE K == a.lease
           C == CellsOf(a.r)
           l == LeaseOf(K)
<1>0. /\ K \in Lent /\ a.r \in Cuts
      /\ live' = live \ {a} /\ ~Open(K)
  BY DEF GiveBack, LiveOk, Allocations, Lent, Open
<1>1. C # {} /\ C \subseteq Left(K)
  BY <1>0, RangeCells, LeftIs
<1>2. ASSUME NEW L, NEW c
      PROVE  c \in Left(L)' <=> \E b \in live' : b.lease = L /\ c \in CellsOf(b.r)
  BY DEF Left, CellsIn
<1>3. ASSUME NEW L, L # K PROVE LeaseOf(L)' = LeaseOf(L) /\ (L \in Lent' <=> L \in Lent)
  <2>1. {b \in live' : b.lease = L} = {b \in live : b.lease = L}
    BY <1>0, <1>3
  <2>2. Left(L)' = Left(L)
    BY <2>1 DEF Left
  <2>3. Open(L)' = Open(L)
    BY <2>1 DEF Open
  <2>4. L \in Lent' <=> L \in Lent
    BY <2>1 DEF Lent
  <2> QED
    BY <2>2, <2>3, <2>4 DEF LeaseOf
<1>4. Left(K)' = Left(K) \ C
  <2>1. ASSUME NEW c, c \in Left(K)' PROVE c \in Left(K) /\ c \notin C
    <3>1. PICK b \in live' : b.lease = K /\ c \in CellsOf(b.r)
      BY <1>2, <2>1
    <3>2. b \in live /\ b # a
      BY <1>0, <3>1
    <3> QED
      BY <3>1, <3>2, LeftIs, OneTenant
  <2>2. ASSUME NEW c \in Left(K), c \notin C PROVE c \in Left(K)'
    <3>1. PICK b \in live : b.lease = K /\ c \in CellsOf(b.r)
      BY LeftIs
    <3>2. b \in live'
      BY <1>0, <2>2, <3>1
    <3> QED
      BY <1>2, <3>1, <3>2
  <2> HIDE DEF C
  <2>3. \A c : c \in Left(K)' <=> c \in Left(K) \ C
    BY <2>1, <2>2
  <2> QED
    BY <2>3, Zenon DEF Left, CellsIn
<1>5. ~Open(K)'
  BY <1>0 DEF Open
<1>6. K \in Lent' <=> Left(K)' # {}
  <2>1. ASSUME K \in Lent' PROVE Left(K)' # {}
    <3>1. PICK b \in live' : b.lease = K
      BY <2>1 DEF Lent
    <3>2. b.r \in Cuts
      BY <1>0, <3>1 DEF LiveOk, Allocations
    <3>3. b.r.from \in CellsOf(b.r)
      BY <3>2, RangeCells
    <3>4. b.r.from \in Left(K)'
      BY <1>2, <3>1, <3>3
    <3> QED
      BY <3>4
  <2>2. ASSUME Left(K)' # {} PROVE K \in Lent'
    BY <2>2 DEF Left, CellsIn, Lent
  <2> QED
    BY <2>1, <2>2
<1>7. ~l.open /\ l.left = Left(K)
  BY <1>0 DEF LeaseOf
<1>8. LeaseOf(K)' = [l EXCEPT !.left = @ \ C]
  <2>1. Open(K)' = FALSE /\ Open(K) = FALSE
    BY <1>0, <1>5 DEF Open
  <2>2. LeaseOf(K)' = [batch |-> CellsIn(K), left |-> Left(K) \ C, open |-> FALSE]
    BY <1>4, <2>1 DEF LeaseOf
  <2>3. l = [batch |-> CellsIn(K), left |-> Left(K), open |-> FALSE]
    BY <2>1 DEF LeaseOf
  <2> DEFINE S == [batch : {CellsIn(K)}, left : {Left(K), Left(K) \ C}, open : {FALSE}]
             m == [l EXCEPT !.left = @ \ C]
  <2>4. LeaseOf(K)' \in S /\ LeaseOf(K)'.left = Left(K) \ C
    BY <2>2
  <2> HIDE DEF C
  <2>5. l \in S /\ l.left = Left(K)
    BY <2>3
  <2> HIDE DEF l, K
  <2>6. m \in S /\ m.left = Left(K) \ C
    BY <2>5
  <2> HIDE DEF m
  <2>7. /\ LeaseOf(K)'.batch = m.batch /\ LeaseOf(K)'.left = m.left
        /\ LeaseOf(K)'.open = m.open
    BY <2>4, <2>6
  <2>8. LeaseOf(K)' = m
    BY <2>4, <2>6, <2>7
  <2> QED
    BY <2>8 DEF m
<1>9. \A L \in Lent : L # K => LeaseOf(L) # l
  BY <1>0, LeasesApart
<1>10. l \in LeaseMap
  BY <1>0 DEF LeaseMap
<1>11. LeaseMap' = (LeaseMap \ {l}) \cup (IF C = l.left THEN {} ELSE {[l EXCEPT !.left = @ \ C]})
  <2>1. CASE C = Left(K)
    <3>1. K \notin Lent'
      BY <1>4, <1>6, <2>1
    <3> HIDE DEF l, C, K
    <3>2. LeaseMap' = LeaseMap \ {l}
      <4>1. \A x : x \in LeaseMap' <=> \E L \in Lent' : x = LeaseOf(L)'
        BY DEF LeaseMap
      <4>2. \A x : x \in LeaseMap <=> \E L \in Lent : x = LeaseOf(L)
        BY DEF LeaseMap
      <4>3. l = LeaseOf(K)
        BY DEF l
      <4> QED
        BY <1>3, <1>9, <3>1, <4>1, <4>2, <4>3
    <3> QED
      BY <1>7, <2>1, <3>2
  <2>2. CASE C # Left(K)
    <3> DEFINE m == [l EXCEPT !.left = @ \ C]
    <3>1. K \in Lent'
      BY <1>1, <1>4, <1>6, <2>2
    <3>2. LeaseOf(K)' = m
      BY <1>8
    <3> HIDE DEF l, C, K, m
    <3>3. LeaseMap' = (LeaseMap \ {l}) \cup {m}
      <4>1. \A x : x \in LeaseMap' <=> \E L \in Lent' : x = LeaseOf(L)'
        BY DEF LeaseMap
      <4>2. \A x : x \in LeaseMap <=> \E L \in Lent : x = LeaseOf(L)
        BY DEF LeaseMap
      <4>3. l = LeaseOf(K)
        BY DEF l
      <4> QED
        BY <1>3, <1>9, <3>1, <3>2, <4>1, <4>2, <4>3
    <3> QED
      BY <1>7, <2>2, <3>3 DEF m
  <2> QED
    BY <2>1, <2>2
<1>12. l \notin LeaseMap'
  <2>1. l \notin LeaseMap \ {l}
    OBVIOUS
  <2>2. [l EXCEPT !.left = @ \ C] # l
    <3>1. [l EXCEPT !.left = @ \ C].left = Left(K) \ C
      BY <1>7 DEF LeaseOf
    <3> HIDE DEF l, C
    <3> QED
      BY <1>1, <1>7, <3>1
  <2> HIDE DEF l, C
  <2> QED
    BY <1>11, <2>1, <2>2
<1> HIDE DEF l, C, K
<1>13. \E x \in LeaseMap \ LeaseMap' :
         /\ ~x.open
         /\ \E D \in SUBSET x.left :
               /\ D # {}
               /\ LeaseMap' = (LeaseMap \ {x}) \cup
                                (IF D = x.left THEN {} ELSE {[x EXCEPT !.left = @ \ D]})
  <2>1. C \in SUBSET l.left /\ l \in LeaseMap \ LeaseMap'
    BY <1>1, <1>7, <1>10, <1>12
  <2> QED
    BY <1>1, <1>7, <1>11, <2>1
<1> QED
  BY <1>13 DEF Leases!GiveBack, LeaseMap, LeaseOf, Lent, Left, Open

\* A claimed batch is a new lease, of cells no other lease has.
LEMMA BatchGrants ==
  ASSUME LiveOk, Tile, NEW R \in SUBSET Cuts, Claimable(R), NEW kind, NEW who,
         live' = live \cup Batch(R, kind, who)
  PROVE  LeaseMap' = LeaseMap \/ Leases!Grant
<1> DEFINE B == Batch(R, kind, who)
           m == LeaseOf(R)'
<1>1. /\ \A b \in B : b.r \in R /\ b.lease = R /\ b.held
      /\ \A r \in R : \E b \in B : b.r = r
  BY BatchIs, BatchHas
<1>2. live' = live \cup B
  OBVIOUS
<1> HIDE DEF B
<1>3. CASE R = {}
  <2>1. live' = live
    BY <1>1, <1>2, <1>3
  <2> QED
    BY <2>1 DEF LeaseMap, LeaseOf, Lent, Left, Open
<1>4. CASE R # {}
  \* The ranges come from the free lists, so they are clear of what is lent.
  <2>1. ASSUME NEW r \in R, NEW c \in CellsOf(r), NEW a \in live PROVE c \notin CellsOf(a.r)
    <3> SUFFICES ASSUME c \in CellsOf(a.r) PROVE FALSE
      OBVIOUS
    <3>1. PICK f \in free : Within(r, f)
      BY DEF Claimable
    <3>2. r \in Cuts /\ f \in Cuts /\ a.r \in Cuts /\ a.r \in Ranges(live)
      BY DEF LiveOk, Allocations, Tile, Tiling, Ranges
    <3>3. Overlap(f, a.r)
      BY <3>1, <3>2, CutFields DEF CellsOf, Overlap, Within
    <3>4. f # a.r
      BY <3>2 DEF Tile, Tiling
    <3> QED
      BY <3>2, <3>3, <3>4 DEF Tile, Tiling, Apart
  <2>2. R \notin Lent
    <3> SUFFICES ASSUME NEW a \in live, a.lease = R PROVE FALSE
      BY DEF Lent
    <3>1. a.r \in R /\ a.r \in Cuts
      BY DEF LiveOk, Proper, Allocations
    <3>2. a.r.from \in CellsOf(a.r)
      BY <3>1, RangeCells
    <3> QED
      BY <2>1, <3>1, <3>2
  <2>3. Lent' = Lent \cup {R}
    <3>1. \E b \in B : TRUE
      BY <1>1, <1>4
    <3>2. \A L : L \in Lent' <=> \E a \in live' : L = a.lease
      BY DEF Lent
    <3>3. \A L : L \in Lent <=> \E a \in live : L = a.lease
      BY DEF Lent
    <3>4. \A L : L \in Lent' <=> L \in Lent \/ L = R
      BY <1>1, <1>2, <3>1, <3>2, <3>3
    <3> QED
      BY <3>4
  <2>4. ASSUME NEW L \in Lent PROVE LeaseOf(L)' = LeaseOf(L)
    <3>1. {b \in live' : b.lease = L} = {b \in live : b.lease = L}
      BY <1>1, <1>2, <2>2
    <3>2. Left(L)' = Left(L)
      BY <3>1 DEF Left
    <3>3. Open(L)' = Open(L)
      BY <3>1 DEF Open
    <3> QED
      BY <3>2, <3>3 DEF LeaseOf
  <2>5. Left(R)' = CellsIn(R) /\ Open(R)'
    <3>1. \A b \in live' : b.lease = R <=> b \in B
      BY <1>1, <1>2, <2>2 DEF Lent
    <3>2. {a.r : a \in {b \in live' : b.lease = R}} = R
      <4>1. {b \in live' : b.lease = R} = B
        BY <1>2, <3>1
      <4> QED
        BY <1>1, <4>1
    <3>3. Left(R)' = CellsIn(R)
      BY <3>2 DEF Left
    <3>4. \E b \in B : b \in live' /\ b.lease = R /\ b.held
      BY <1>1, <1>2, <1>4
    <3> QED
      BY <3>3, <3>4 DEF Open
  <2>6. m.batch = CellsIn(R) /\ m.left = CellsIn(R) /\ m.open
    <3>1. m.batch = CellsIn(R) /\ m.left = Left(R)' /\ m.open = Open(R)'
      BY DEF LeaseOf
    <3> QED
      BY <2>5, <3>1
  <2>7. CellsIn(R) # {} /\ CellsIn(R) \subseteq 0..(Total - 1)
    <3>1. \A r \in R : CellsOf(r) \subseteq 0..(Total - 1) /\ r.from \in CellsOf(r)
      BY RangeCells
    <3> QED
      BY <1>4, <3>1 DEF CellsIn
  <2>8. \A L \in Lent : CellsIn(R) \cap Left(L) = {}
    <3> SUFFICES ASSUME NEW L \in Lent, NEW c \in CellsIn(R), c \in Left(L) PROVE FALSE
      OBVIOUS
    <3>1. PICK r \in R : c \in CellsOf(r)
      BY DEF CellsIn
    <3>2. PICK a \in live : c \in CellsOf(a.r)
      BY LeftIs
    <3> QED
      BY <2>1, <3>1, <3>2
  <2> HIDE DEF m
  <2>9. LeaseMap' = LeaseMap \cup {m}
    <3>1. \A x : x \in LeaseMap' <=> \E L \in Lent' : x = LeaseOf(L)'
      BY DEF LeaseMap
    <3>2. \A x : x \in LeaseMap <=> \E L \in Lent : x = LeaseOf(L)
      BY DEF LeaseMap
    <3>3. m = LeaseOf(R)'
      BY DEF m
    <3> QED
      BY <2>3, <2>4, <3>1, <3>2, <3>3
  <2>10. \A l \in LeaseMap : m.batch \cap l.left = {}
    BY <2>6, <2>8, LeaseFields DEF LeaseMap
  <2>11. m \notin LeaseMap
    BY <2>6, <2>7, <2>10
  <2>12. m.batch \in SUBSET ((0..(Total - 1)) \ UNION {l.left : l \in LeaseMap})
    BY <2>6, <2>7, <2>10
  <2>13. \E l \in LeaseMap' \ LeaseMap :
           /\ l.open /\ l.left = l.batch
           /\ l.batch \in SUBSET ((0..(Total - 1)) \ UNION {x.left : x \in LeaseMap})
           /\ l.batch # {}
           /\ LeaseMap' = LeaseMap \cup {l}
    BY <2>6, <2>7, <2>9, <2>11, <2>12
  <2> QED
    BY <2>13 DEF Leases!Grant, Leases!Taken, LeaseMap, LeaseOf, Lent, Left, Open
<1> QED
  BY <1>3, <1>4

\* Nothing is committed for Prefill next to another Prefill ring.
LEMMA RingOneNext ==
  ASSUME LiveOk, CtlOk, RingGone, RingOne, [Next]_vars
  PROVE  RingOne'
<1> DEFINE Same == \A b \in live' : \E a \in live : b.class = a.class /\ b.lease = a.lease
<1>0. live \subseteq Allocations /\ (Same => RingOne')
  BY DEF LiveOk, RingOne
<1>1. ASSUME live' \subseteq live PROVE Same
  BY <1>1
<1>2. ASSUME NEW A, live' = Released(A) PROVE Same
  <2>1. \A b \in Released(A) : \E a \in live : b.class = a.class /\ b.lease = a.lease
    BY <1>0, ReleasedIs
  <2> QED
    BY <1>2, <2>1
<1> HIDE DEF Same
<1>3. ASSUME NEW a \in live, GiveBack(a) PROVE Same
  BY <1>1, <1>3 DEF GiveBack
<1>4. ASSUME NEW a \in live, CloseWork(a) PROVE Same
  BY <1>2, <1>4 DEF CloseWork
<1>5. ASSUME NEW k \in Sessions, CloseSegment(k) \/ TrimSegment(k) PROVE Same
  BY <1>2, <1>5 DEF CloseSegment, TrimSegment, DropSegment
<1>6. ASSUME NEW k \in Sessions, DropReservation(k) \/ ReserveKv(k) \/ PlanGrow(k)
                                  \/ StartTrim(k) \/ EndTrim(k)
      PROVE  Same
  BY <1>1, <1>6 DEF DropReservation, ReserveKv, PlanGrow, StartTrim, EndTrim
<1>7. ASSUME NEW n \in WorkSizes, StartWork(n) PROVE Same
  BY <1>1, <1>7 DEF StartWork
<1>8. ASSUME NEW k \in Sessions, NEW n \in 1..MaxSegs, StartGrow(k, n) PROVE Same
  BY <1>2, <1>8 DEF StartGrow, EnterDecode
<1>9. CASE StartDecode
  BY <1>0, <1>2, <1>9 DEF StartDecode, EnterDecode
<1>10. CASE StartRing \/ StartRestore \/ EndRestore \/ PlanWork \/ PlanRing
  BY <1>0, <1>1, <1>10 DEF StartRing, StartRestore, EndRestore, PlanWork, PlanRing
<1>11. CASE RestoreSlot
  <2> DEFINE B == Batch({Slots[cursor].r}, "Expert", cursor)
  <2>1. \A b \in B : b.class = "Expert"
    BY BatchIs
  <2>2. live' = live \/ live' = live \cup B
    BY <1>11 DEF RestoreSlot
  <2> HIDE DEF B
  <2> QED
    BY <2>1, <2>2 DEF RingOne
<1>12. CASE Retire
  BY <1>0, <1>2, <1>12 DEF Retire
<1>13. CASE Commit
  <2> DEFINE B == Batch(plan.ranges, goal.class, goal.owner)
  <2>1. \A b \in B : b.class = goal.class /\ b.lease = plan.ranges
    BY BatchIs
  <2>2. live' = live \/ live' = live \cup B
    BY <1>13 DEF Commit
  <2>3. goal.class = "Prefill" => \A a \in live : a.class # "Prefill"
    BY <1>13 DEF Commit, CtlOk, RingGone
  <2> HIDE DEF B
  <2> QED
    BY <2>1, <2>2, <2>3 DEF RingOne
<1>14. CASE UNCHANGED vars
  BY <1>0, <1>1, <1>14 DEF vars
<1> QED
  BY <1>0, <1>3, <1>4, <1>5, <1>6, <1>7, <1>8, <1>9, <1>10, <1>11, <1>12, <1>13, <1>14 DEF Next

\* Leaving Prefill closes the lease of its ring.
LEMMA EnterCloses ==
  ASSUME LiveOk, Tile, RingOne, EnterDecode
  PROVE  LeaseMap' = LeaseMap \/ Leases!Close
<1> DEFINE A == {a \in live : a.class = "Prefill"}
<1>1. live' = Released(A)
  BY DEF EnterDecode
<1>2. \A a, b \in A : a.lease = b.lease
  BY DEF RingOne
<1>3. \E K : \A a \in A : a.lease = K
  <2>1. CASE A = {}
    BY <2>1
  <2>2. ASSUME NEW b \in A PROVE \E K : \A a \in A : a.lease = K
    BY <1>2, <2>2
  <2> QED
    BY <2>1, <2>2
<1> HIDE DEF A
<1>4. PICK K : \A a \in A : a.lease = K
  BY <1>3
<1>5. \A a \in live : a \in A /\ a.held => a.lease = K
  BY <1>4
<1> QED
  BY <1>1, <1>5, ReleaseCloses

\* Every step opens a lease, closes one, returns cells of a closed one, or
\* leaves the leases alone.
LEMMA LeaseStep ==
  ASSUME LiveOk, Tile, CtlOk, RingOne, [Next]_vars
  PROVE  LeaseMap' = LeaseMap \/ Leases!LeaseNext
<1>1. ASSUME live' = live PROVE LeaseMap' = LeaseMap
  BY <1>1 DEF LeaseMap, LeaseOf, Lent, Left, Open
<1>2. ASSUME NEW a \in live, live' = Released({a}) PROVE LeaseMap' = LeaseMap \/ Leases!Close
  <2>1. \A b \in live : b \in {a} /\ b.held => b.lease = a.lease
    OBVIOUS
  <2> QED
    BY <1>2, <2>1, ReleaseCloses
<1>3. ASSUME NEW a \in live, GiveBack(a) PROVE Leases!GiveBack
  BY <1>3, ReturnGivesBack
<1>4. ASSUME NEW a \in live, CloseWork(a) PROVE LeaseMap' = LeaseMap \/ Leases!Close
  BY <1>2, <1>4 DEF CloseWork
<1>5. ASSUME NEW k \in Sessions, CloseSegment(k) \/ TrimSegment(k)
      PROVE  LeaseMap' = LeaseMap \/ Leases!Close
  <2>1. PICK a \in live : live' = Released({a})
    BY <1>5 DEF CloseSegment, TrimSegment, DropSegment
  <2> QED
    BY <1>2, <2>1
<1>6. ASSUME NEW k \in Sessions, DropReservation(k) \/ ReserveKv(k) \/ PlanGrow(k)
                                  \/ StartTrim(k) \/ EndTrim(k)
      PROVE  LeaseMap' = LeaseMap
  BY <1>1, <1>6 DEF DropReservation, ReserveKv, PlanGrow, StartTrim, EndTrim
<1>7. ASSUME NEW n \in WorkSizes, StartWork(n) PROVE LeaseMap' = LeaseMap
  BY <1>1, <1>7 DEF StartWork
<1>8. ASSUME NEW k \in Sessions, NEW n \in 1..MaxSegs, StartGrow(k, n)
      PROVE  LeaseMap' = LeaseMap \/ Leases!Close
  BY <1>8, EnterCloses DEF StartGrow
<1>9. ASSUME StartDecode PROVE LeaseMap' = LeaseMap \/ Leases!Close
  BY <1>9, EnterCloses DEF StartDecode
<1>10. ASSUME StartRing \/ StartRestore \/ EndRestore \/ PlanWork \/ PlanRing
       PROVE  LeaseMap' = LeaseMap
  BY <1>1, <1>10 DEF StartRing, StartRestore, EndRestore, PlanWork, PlanRing
<1>11. ASSUME RestoreSlot PROVE LeaseMap' = LeaseMap \/ Leases!Grant
  <2> DEFINE R == {Slots[cursor].r}
  <2>1. R \in SUBSET Cuts
    BY <1>11, SlotRange DEF RestoreSlot
  <2>2. live' = live \/ (Claimable(R) /\ live' = live \cup Batch(R, "Expert", cursor))
    BY <1>11 DEF RestoreSlot
  <2> HIDE DEF R
  <2>3. PICK i : i = cursor
    OBVIOUS
  <2>4. live' = live \/ (Claimable(R) /\ live' = live \cup Batch(R, "Expert", i))
    BY <2>2, <2>3
  <2>5. PICK Q : Q = R
    OBVIOUS
  <2>6. /\ Q \in SUBSET Cuts
        /\ live' = live \/ (Claimable(Q) /\ live' = live \cup Batch(Q, "Expert", i))
    BY <2>1, <2>4, <2>5
  <2>7. ASSUME Claimable(Q), live' = live \cup Batch(Q, "Expert", i)
        PROVE  LeaseMap' = LeaseMap \/ Leases!Grant
    BY <2>6, <2>7, BatchGrants
  <2> QED
    BY <1>1, <2>6, <2>7
<1>12. ASSUME Retire PROVE LeaseMap' = LeaseMap \/ Leases!Close
  <2>1. PICK i : live' = Released({a \in Experts : a.owner = i})
    BY <1>12 DEF Retire
  <2> DEFINE A == {a \in Experts : a.owner = i}
  <2>2. \A a, b \in live : a \in A /\ b \in A => a = b
    BY DEF LiveOk, Proper, Experts
  <2>3. live' = Released(A)
    BY <2>1
  <2> HIDE DEF A
  <2>4. \E K : \A a \in live : a \in A => a.lease = K
    <3>1. CASE \E b \in live : b \in A
      BY <2>2, <3>1
    <3>2. CASE ~\E b \in live : b \in A
      BY <3>2
    <3> QED
      BY <3>1, <3>2
  <2>5. PICK K : \A a \in live : a \in A => a.lease = K
    BY <2>4
  <2>6. \A a \in live : a \in A /\ a.held => a.lease = K
    BY <2>5
  <2> QED
    BY <2>3, <2>6, ReleaseCloses
<1>13. ASSUME Commit PROVE LeaseMap' = LeaseMap \/ Leases!Grant
  <2>1. plan.ranges \in SUBSET Cuts
    BY DEF CtlOk, Plans
  <2>2. live' = live \/ (Claimable(plan.ranges)
                          /\ live' = live \cup Batch(plan.ranges, goal.class, goal.owner))
    BY <1>13 DEF Commit
  <2>3. PICK Q, c, o : Q = plan.ranges /\ c = goal.class /\ o = goal.owner
    OBVIOUS
  <2>4. /\ Q \in SUBSET Cuts
        /\ live' = live \/ (Claimable(Q) /\ live' = live \cup Batch(Q, c, o))
    BY <2>1, <2>2, <2>3
  <2>5. ASSUME Claimable(Q), live' = live \cup Batch(Q, c, o)
        PROVE  LeaseMap' = LeaseMap \/ Leases!Grant
    BY <2>4, <2>5, BatchGrants
  <2> QED
    BY <1>1, <2>4, <2>5
<1>14. ASSUME UNCHANGED vars PROVE LeaseMap' = LeaseMap
  BY <1>1, <1>14 DEF vars
<1> QED
  BY <1>3, <1>4, <1>5, <1>6, <1>7, <1>8, <1>9, <1>10, <1>11, <1>12, <1>13, <1>14
  DEF Next, Leases!LeaseNext

\* As built, every slot is a lease of its own.
LEMMA LeaseStart ==
  ASSUME Init
  PROVE  RingOne /\ Leases!LeaseInit
<1>0. LiveOk /\ Tile
  BY TileInit
<1>1. ASSUME NEW a \in live PROVE a.class = "Expert" /\ a.lease = {a.r} /\ a.held
  <2>1. PICK i \in Directory : a \in Batch({Slots[i].r}, "Expert", i)
    BY DEF Init
  <2> QED
    BY <2>1, BatchIs
<1>2. RingOne
  BY <1>1 DEF RingOne
<1>3. ASSUME NEW L \in Lent
      PROVE  Open(L) /\ Left(L) = CellsIn(L) /\ CellsIn(L) \in (SUBSET (0..(Total - 1))) \ {{}}
  <2>1. PICK a \in live : a.lease = L
    BY DEF Lent
  <2>2. Open(L)
    BY <1>1, <2>1 DEF Open
  <2>3. Left(L) # {} /\ Left(L) \subseteq CellsIn(L) /\ CellsIn(L) \subseteq 0..(Total - 1)
    BY <1>0, LeftWithin
  <2>4. ASSUME NEW c \in CellsIn(L) PROVE c \in Left(L)
    <3>1. L = {a.r}
      BY <1>1, <2>1
    <3>2. c \in CellsOf(a.r)
      BY <3>1 DEF CellsIn
    <3> QED
      BY <2>1, <3>2, LeftIs
  <2> QED
    BY <2>2, <2>3, <2>4
<1>4. \A l \in LeaseMap : l.open /\ l.left = l.batch /\ l.batch \in (SUBSET (0..(Total - 1))) \ {{}}
  BY <1>3, LeaseFields DEF LeaseMap
<1>5. \A l, m \in LeaseMap : l # m => l.left \cap m.left = {}
  <2> TAKE l, m \in LeaseMap
  <2>1. PICK L \in Lent : l = LeaseOf(L)
    BY DEF LeaseMap
  <2>2. PICK M \in Lent : m = LeaseOf(M)
    BY DEF LeaseMap
  <2>3. CASE L = M
    BY <2>1, <2>2, <2>3
  <2>4. CASE L # M
    BY <1>0, <2>1, <2>2, <2>4, LeasesApart, LeaseFields
  <2> QED
    BY <2>3, <2>4
<1>6. Leases!LeaseInit
  BY <1>4, <1>5 DEF Leases!LeaseInit, LeaseMap, LeaseOf, Lent, Left, Open
<1> QED
  BY <1>2, <1>6

\* The arena implements CellLeases: no cell is leased twice, and none of a
\* batch returns while a sibling is in use (UnifiedAllocationHandle::_owner).
THEOREM ArenaImplementsLeases == Spec => LeasesHold
<1>1. Init => Leases!LeaseInit /\ RingOne
  BY LeaseStart
<1>2. ArenaInv /\ RingOne /\ [Next]_vars => RingOne'
  BY RingOneNext DEF ArenaInv
<1>3. ArenaInv /\ RingOne /\ [Next]_vars =>
        [Leases!LeaseNext]_{[batch |-> CellsIn(L),
                left |-> CellsIn({a.r : a \in {b \in live : b.lease = L}}),
                open |-> \E a \in live : a.lease = L /\ a.held] : L \in {a.lease : a \in live}}
  BY LeaseStep DEF ArenaInv, LeaseMap, LeaseOf, Lent, Left, Open
<1> QED
  BY <1>1, <1>2, <1>3, ArenaKeepsItsInvariant, PTL DEF Spec, LeasesHold, Leases!LeaseSpec

=============================================================================
