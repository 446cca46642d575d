------------------------------- MODULE MCServe -------------------------------
(***************************************************************************)
(* A small instance of Serve: the tree  g - a1 - a2, g - b1.  Sapling      *)
(* completes a subtree in each block after genesis, orchard one on the     *)
(* longer branch.                                                          *)
(***************************************************************************)
EXTENDS Serve, TLC

CONSTANTS g, a1, a2, b1

AllBlocks == {g, a1, a2, b1}

AllChains ==
  g :> <<g>> @@ a1 :> <<g, a1>> @@ a2 :> <<g, a1, a2>> @@ b1 :> <<g, b1>>

MCChain == [b \in Block |-> AllChains[b]]

(* One commitment per block and pool. *)
MCNewNotes == [b \in Block |-> [p \in Pools |-> 1]]

MCTreeSize == [b \in Block |-> [p \in Pools |-> Height(b) + 1]]

NoBlocks == {}

SubtreeBlocks ==
  "sapling" :> {a1, a2, b1} @@ "orchard" :> {a2}

Asked(kind, height) == [kind |-> kind, height |-> height]

AskedSubtrees(pool, start, max) ==
  [kind |-> "subtrees", pool |-> pool, start |-> start, max |-> max]

AllRequests ==
  {Asked("latest", 0), Asked("block", 0), Asked("block", 1), Asked("info", 0),
   Asked("treestate", 0), Asked("treestate", 2), Asked("latesttreestate", 0),
   AskedSubtrees("sapling", 0, 0), AskedSubtrees("sapling", 1, 0),
   AskedSubtrees("sapling", 0, 1), AskedSubtrees("orchard", 0, 0),
   AskedSubtrees("ironwood", 0, 0)}
=============================================================================
