---------------------------- MODULE CompactStore ----------------------------
(***************************************************************************)
(* The SQLite store (src/store.rs): the table compact_blocks, keyed by     *)
(* height, and the table meta, keyed by name.  Every operation is one SQL  *)
(* statement in autocommit mode under one mutex, so each is atomic and     *)
(* durable on its own and nothing makes two of them atomic together.       *)
(*                                                                         *)
(* A row is [block, sizes]: the block (its hash column and, in the encoded *)
(* compact block, its header and transactions) and the tree sizes of its   *)
(* ChainMetadata.  min_height and get_meta are called by nothing, and the  *)
(* labels node_kind and subversion, written with the chain, are left out.  *)
(***************************************************************************)
EXTENDS Integers, FiniteSetsExt

CONSTANT None

VARIABLES
  rows,            (* the function from stored heights to rows *)
  meta             (* the meta entries, None when absent       *)

NoRows == [h \in {} |-> None]

MetaKeys == {"chain", "node_tip", "indexed_tip"}

NoMeta == [k \in MetaKeys |-> None]

HasRow(h) == h \in DOMAIN rows

(* SELECT MAX(height): NULL on an empty table. *)
MaxHeight == IF DOMAIN rows = {} THEN None ELSE Max(DOMAIN rows)

(* INSERT ... ON CONFLICT(height) DO UPDATE. *)
PutCompactBlock(h, row) ==
  rows' = [g \in DOMAIN rows \cup {h} |-> IF g = h THEN row ELSE rows[g]]

(* Mutant of PruneAbove: the comparison is one off. *)
PruneAboveNext(tip) == rows' = Restrict(rows, {h \in DOMAIN rows : h <= tip + 1})

(* DELETE ... WHERE height > tip. *)
PruneAbove(tip) == rows' = Restrict(rows, {h \in DOMAIN rows : h <= tip})

SetMeta(key, value) == meta' = [meta EXCEPT ![key] = value]
=============================================================================
