------------------------------ MODULE MCParity ------------------------------
(***************************************************************************)
(* A small instance of Parity: two hashes, one of them its own reversal,   *)
(* ours with up to two rows and the reference with up to three; and pairs  *)
(* without rows that differ in the header or in the sizes.                 *)
(***************************************************************************)
EXTENDS Parity

SmallReversed == [h \in {"x", "xr", "y"} |->
  CASE h = "x" -> "xr" [] h = "xr" -> "x" [] OTHER -> h]

Empty == [l \in Lists |-> << >>]

With(list, keys, text) ==
  [Empty EXCEPT ![list] = [i \in DOMAIN keys |-> [key |-> keys[i], text |-> text]]]

(* texts longer than TextLen, and one that is cut short *)
OurLists == {With("outputs", << 1 >>, << 1, 2 >>),
             With("ironwood_actions", << 1 >>, << 1, 2 >>),
             With("ironwood_actions", << 1, 2 >>, << 1, 2 >>)}

ReferenceLists == {Empty,
                   With("outputs", << 1 >>, << 1, 2, 3 >>),
                   With("ironwood_actions", << 1 >>, << 1 >>),
                   With("ironwood_actions", << 1 >>, << 2, 2 >>),
                   With("ironwood_actions", << 2, 1 >>, << 1, 2 >>)}

Rows(hashes, lists) == {[hash |-> h, lists |-> l] : h \in hashes, l \in lists}

Block(height, hash, prev, time, vtx, sizes) ==
  [height |-> height, hash |-> hash, prev_hash |-> prev, time |-> time,
   vtx |-> vtx, sizes |-> sizes]

WithRows(vtx) == Block(1, "x", "y", 1, vtx, << >>)

RowPairs ==
  {[ours |-> WithRows(o), reference |-> WithRows(r)] :
     o \in SeqOf(Rows({"x", "y"}, OurLists), 2),
     r \in SeqOf(Rows({"x", "xr", "y"}, ReferenceLists), 2) \cup
           {<< a, b, c >> : a, b, c \in
              Rows({"x", "y"}, {Empty} \cup {With("outputs", << 1 >>, << 1, 2, 3 >>)}) \cup
              Rows({"xr"}, {With("ironwood_actions", << 1 >>, << 1 >>)})}}

HeaderPairs ==
  {[ours |-> Block(1, "x", "y", 1, << >>, << >>),
    reference |-> Block(height, hash, prev, time, << >>, << >>)] :
     height \in {1, 2}, time \in {1, 2},
     hash \in {"x", "xr", "y"}, prev \in {"x", "xr", "y"}}

AllSizes == {<< >>} \cup {<< s >> : s \in [Trees -> 0 .. 2]}

SizePairs ==
  {[ours |-> Block(1, "x", "y", 1, << >>, a),
    reference |-> Block(1, "x", "y", 1, << >>, b)] : a \in AllSizes, b \in AllSizes}

SmallPairs == RowPairs \cup HeaderPairs \cup SizePairs
=============================================================================
