------------------------------ MODULE TreeSizes ------------------------------
(***************************************************************************)
(* Note-commitment tree sizes, one u32 per shielded pool, and how they are *)
(* read out of the node's JSON (src/tree_sizes.rs).  Pure operators.       *)
(*                                                                         *)
(* A JSON object is a function whose domain is the pools it has a usable   *)
(* field for; which of the accepted spellings of the field the node uses   *)
(* makes no difference to any of the definitions.                          *)
(***************************************************************************)
EXTENDS Integers

CONSTANT U32Max    (* the largest u32 *)

ASSUME U32Assumption == U32Max \in Nat

Pools == {"sapling", "orchard", "ironwood"}

Sizes == [Pools -> 0 .. U32Max]

ZeroSizes == [p \in Pools |-> 0]

(* All pools 0: the vector that stands for "not known" as well as for an   *)
(* empty tree.                                                             *)
IsZero(sizes) == \A p \in Pools : sizes[p] = 0

SaturatingAdd(sizes, delta) ==
  [p \in Pools |-> IF sizes[p] + delta[p] > U32Max
                   THEN U32Max
                   ELSE sizes[p] + delta[p]]

(* A field that is missing or that is no u32 reads as 0. *)
PoolJsonSize(fields, p) == IF p \in DOMAIN fields THEN fields[p] ELSE 0

(* Mutant of TreeSizesFromTreestate: the finalState trees are not read. *)
TreeSizesFromSizeFields(reply) ==
  [p \in Pools |-> PoolJsonSize(reply.size, p)]

(* z_gettreestate: the size field of a pool, else the size of the tree its *)
(* finalState encodes.                                                     *)
TreeSizesFromTreestate(reply) ==
  [p \in Pools |-> IF PoolJsonSize(reply.size, p) # 0
                   THEN PoolJsonSize(reply.size, p)
                   ELSE PoolJsonSize(reply.finalState, p)]

(* getblock with verbosity 1: the entries of its "trees" object. *)
TreeSizesFromGetblock(trees) == [p \in Pools |-> PoolJsonSize(trees, p)]
=============================================================================
