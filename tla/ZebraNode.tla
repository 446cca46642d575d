------------------------------ MODULE ZebraNode ------------------------------
(***************************************************************************)
(* The Zebrad / Zakura node Zeaking follows, as its JSON-RPC client sees   *)
(* it.  The node is not part of the repository: everything here is what    *)
(* src/rpc.rs asks of it and how src/ingest.rs and src/tree_sizes.rs use   *)
(* the answers.                                                            *)
(*                                                                         *)
(* All the blocks there will ever be form a constant forest: Chain[b] is   *)
(* the sequence of blocks from a genesis block to b, so the height of b is *)
(* Len(Chain[b]) - 1 and a block hash is the block itself.  The only state *)
(* is the node's best block.  A move to a descendant is chain growth, a    *)
(* move anywhere else is a reorganisation or a tip drop (a restarted node  *)
(* that lost its non-finalized blocks, for one).                           *)
(***************************************************************************)
EXTENDS TreeSizes, Sequences

CONSTANTS
  Block,           (* every block of every branch of every network           *)
  Chain,           (* Chain[b]: the blocks from genesis to b                 *)
  NewNotes,        (* NewNotes[b]: commitments b adds, by pool               *)
  TreeSize,        (* TreeSize[b]: commitments after b, by pool              *)
  SizePools,       (* pools whose z_gettreestate entry has a size field      *)
  FinalStatePools, (* pools whose z_gettreestate entry has a finalState      *)
  VerbosePools     (* pools whose size getblock verbosity 1 gives in "trees" *)

VARIABLE best      (* the tip of the node's active chain                     *)

Height(b) == Len(Chain[b]) - 1

(* The block at height h of the chain that ends in b. *)
BlockAt(b, h) == Chain[b][h + 1]

PrevBlock(b) == BlockAt(b, Height(b) - 1)

OnChain(b, tipBlock) ==
  Height(b) <= Height(tipBlock) /\ BlockAt(tipBlock, Height(b)) = b

ChainBlocks(b) == {x \in Block : OnChain(x, b)}

(* A chain is named after its genesis block ("main", "test", "regtest"). *)
ChainName(b) == Chain[b][1]

Heights == {Height(b) : b \in Block}

(* Chain really is a forest: every prefix of a chain is a chain. *)
ASSUME ChainAssumption ==
  /\ Chain \in [Block -> Seq(Block)]
  /\ \A b \in Block : Len(Chain[b]) > 0 /\ Chain[b][Len(Chain[b])] = b
  /\ \A b \in Block : \A i \in 1 .. Len(Chain[b]) :
       /\ Len(Chain[Chain[b][i]]) = i
       /\ \A j \in 1 .. i : Chain[Chain[b][i]][j] = Chain[b][j]

(* A tree size is the sum of the commitments along the chain.  It fits a   *)
(* u32: the note commitment trees have depth 32.                           *)
ASSUME TreeSizeAssumption ==
  /\ NewNotes \in [Block -> Sizes]
  /\ TreeSize \in [Block -> Sizes]
  /\ \A b \in Block : \A p \in Pools :
       TreeSize[b][p] = NewNotes[b][p] + IF Height(b) = 0
                                         THEN 0
                                         ELSE TreeSize[PrevBlock(b)][p]

ASSUME ReplyAssumption ==
  /\ SizePools \subseteq Pools
  /\ FinalStatePools \subseteq Pools
  /\ VerbosePools \subseteq Pools

(* Every pool can be read from either of the two replies. *)
FullReports == SizePools \cup FinalStatePools = Pools /\ VerbosePools = Pools

(* z_gettreestate for block b: its size fields and its finalState trees. *)
TreestateReply(b) ==
  [size       |-> [p \in SizePools |-> TreeSize[b][p]],
   finalState |-> [p \in FinalStatePools |-> TreeSize[b][p]]]

(* getblock b with verbosity 1: the sizes in its "trees" object. *)
TreesReply(b) == [p \in VerbosePools |-> TreeSize[b][p]]

(* The node adopts another best block. *)
NodeMove(b) ==
  /\ b # best
  /\ best' = b
=============================================================================
