------------------------------ MODULE MCIngest ------------------------------
(***************************************************************************)
(* Small instances of Ingest for TLC.                                      *)
(*                                                                         *)
(*   forked tree    g - a1 - a2 - a3        t   (the genesis of another    *)
(*                    \ b1 - b2                  network)                  *)
(*   linear tree    g - a1 - a2 - a3                                       *)
(*                                                                         *)
(* g has no commitments, so its tree sizes are genuinely all zero; a1 has  *)
(* none in one pool; the u32 range is small enough that sizes saturate if  *)
(* they are added up wrongly.                                              *)
(***************************************************************************)
EXTENDS Ingest, TLC

CONSTANTS g, a1, a2, a3, b1, b2, t

ForkedBlocks == {g, a1, a2, a3, b1, b2, t}

LinearBlocks == {g, a1, a2, a3}

Parent ==
  g :> None @@ a1 :> g @@ a2 :> a1 @@ a3 :> a2 @@ b1 :> g @@ b2 :> b1 @@ t :> None

Vector(sapling, orchard, ironwood) ==
  [sapling |-> sapling, orchard |-> orchard, ironwood |-> ironwood]

Notes ==
  g :> Vector(0, 0, 0) @@ a1 :> Vector(1, 0, 1) @@ a2 :> Vector(0, 2, 0) @@
  a3 :> Vector(1, 0, 1) @@ b1 :> Vector(0, 1, 0) @@ b2 :> Vector(1, 1, 0) @@
  t :> Vector(1, 0, 0)

(* The chain that ends in b, and its commitments: recursion over the       *)
(* parents, cut off at the number of blocks.                               *)
ChainTo ==
  LET walk[n \in 0 .. 7] ==
        [b \in ForkedBlocks \cup {None} |->
           IF n = 0 \/ b = None THEN << >>
           ELSE Append(walk[n - 1][Parent[b]], b)]
  IN  walk[7]

MCChain == [b \in Block |-> ChainTo[b]]

MCNewNotes == [b \in Block |-> Notes[b]]

MCTreeSize ==
  [b \in Block |->
     [p \in Pools |->
        LET sum[i \in 0 .. Len(ChainTo[b])] ==
              IF i = 0 THEN 0 ELSE sum[i - 1] + Notes[ChainTo[b][i]][p]
        IN  sum[Len(ChainTo[b])]]]

NoBlocks == {}

OnlySapling == {"sapling"}

NotSapling == {"orchard", "ironwood"}

Unparsable == {a3}
=============================================================================
