--------------------------- MODULE MCUnifiedArena ---------------------------
(* A small arena: two shards, six slots of two sizes, a corridor of four   *)
(* cells for KV, a floor of three and one cell for runtime buffers.        *)
EXTENDS UnifiedArena, TLC

MCShards == {Cut(0, 4), Cut(4, 8)}
MCSlots ==
    <<[pool |-> "A", r |-> Cut(0, 2)], [pool |-> "A", r |-> Cut(4, 6)],
      [pool |-> "B", r |-> Cut(2, 3)], [pool |-> "B", r |-> Cut(3, 4)],
      [pool |-> "B", r |-> Cut(6, 7)], [pool |-> "B", r |-> Cut(7, 8)]>>
MCMinEnabled == [A |-> 1, B |-> 1]
MCPins == {{}, {4}}
\* Sessions are interchangeable.
MCSymmetry == Permutations(Sessions)
=============================================================================
