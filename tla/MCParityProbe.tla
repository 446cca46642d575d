---------------------------- MODULE MCParityProbe ----------------------------
(***************************************************************************)
(* A small instance of ParityProbe: the tree  g - a1 - a2, g - b1  without *)
(* commitments in g, and an engine that knows no size of b1 and whose row  *)
(* of a2 has lost its seed: 0 where a2 adds nothing, a size that is too    *)
(* small where it does.                                                    *)
(***************************************************************************)
EXTENDS ParityProbe, TLC

CONSTANTS g, a1, a2, b1

SmallBlocks == {g, a1, a2, b1}

AllChains ==
  g :> <<g>> @@ a1 :> <<g, a1>> @@ a2 :> <<g, a1, a2>> @@ b1 :> <<g, b1>>

Each(n) == [p \in Pools |-> n]

MCChain == [b \in Block |-> AllChains[b]]

MCNewNotes ==
  [b \in Block |-> CASE b = g  -> Each(0)
                     [] b = a1 -> Each(1)
                     [] b = a2 -> [Each(1) EXCEPT !["sapling"] = 0]
                     [] b = b1 -> Each(2)]

MCTreeSize ==
  [b \in Block |-> IF b = a2 THEN [Each(2) EXCEPT !["sapling"] = 1]
                             ELSE MCNewNotes[b]]

MCEngineSizes ==
  [b \in Block |-> IF b = a1 THEN MCTreeSize[b]
                   ELSE IF b = a2 THEN MCNewNotes[b] ELSE Each(0)]

(* The node says nothing of the newest pool. *)
MCReplyPools == Pools \ {"ironwood"}

MCWindows == {0, 2, 5}
=============================================================================
