--------------------------- MODULE MCRangeStream ---------------------------
(***************************************************************************)
(* A small instance of RangeStream: the tree  g - a1, g - b1, on which a   *)
(* stream can meet a tip drop, a prune and a row of another branch where   *)
(* one was; a range that can be served and one that ends above every tip.  *)
(* The channel holds one item, so the task waits for room after every send.*)
(***************************************************************************)
EXTENDS RangeStream, TLC

CONSTANTS g, a1, b1

SmallBlocks == {g, a1, b1}

SmallRanges == {[start |-> 0, end |-> 1], [start |-> 0, end |-> 2]}

AllChains == g :> <<g>> @@ a1 :> <<g, a1>> @@ b1 :> <<g, b1>>

(* n commitments in each pool *)
Each(n) == [p \in Pools |-> n]

AllNewNotes == g :> Each(1) @@ a1 :> Each(0) @@ b1 :> Each(2)

AllTreeSizes == g :> Each(1) @@ a1 :> Each(1) @@ b1 :> Each(3)

SmallChain == [b \in Block |-> AllChains[b]]

SmallNewNotes == [b \in Block |-> AllNewNotes[b]]

SmallTreeSize == [b \in Block |-> AllTreeSizes[b]]

NoBlocks == {}
=============================================================================
