--------------------------- MODULE MCCompactCodec ---------------------------
(***************************************************************************)
(* A small instance of CompactCodec: bytes have 8 values, so 5, 6 and 7    *)
(* announce a wider size, 4 and 5 are the opcodes of the heights 1 and 2,  *)
(* and pushes have up to 3 bytes.  The heights are those at which the form *)
(* of the push changes; 20 stands for the bits of the genesis difficulty,  *)
(* so it is the height of no block.                                        *)
(***************************************************************************)
EXTENDS CompactCodec

SmallWide == << 2, 3, 4 >>

Heights == {0, 1, 2, 3, 4, 31, 32, 70}

(* no script, an opcode that pushes no height, a push that is cut short *)
BadScripts == { << >>, << 6, 1 >>, << 2, 1 >> }

Notes(sapling, orchard, ironwood) ==
  [p \in Pools |-> CASE p = "sapling" -> sapling
                     [] p = "orchard" -> orchard
                     [] OTHER -> ironwood]

TxOf(script, spends, notes) == [script |-> script, spends |-> spends, notes |-> notes]

(* the coinbases: a byte follows the push of the height *)
Coinbases ==
  {[height |-> h, script |-> HeightScript(h) \o << 7 >>] : h \in Heights} \cup
  {[height |-> -1, script |-> s] : s \in BadScripts}

Others ==
  {TxOf(<< >>, 0, Notes(0, 0, 0)), TxOf(<< >>, 1, Notes(0, 0, 0)),
   TxOf(<< >>, 0, Notes(2, 1, 0)), TxOf(<< >>, 0, Notes(0, 0, 1))}

Block(solution, txHeight, txs) ==
  [solution |-> solution, height |-> txHeight, txs |-> txs]

(* solution lengths on either side of the one-byte limit *)
SmallBlocks ==
  {Block(n, -1, << >>) : n \in {0, 4}} \cup
  {Block(n, c.height, << TxOf(c.script, 0, notes) >> \o others) :
     n \in {4, 5}, c \in Coinbases, notes \in {Notes(0, 0, 0), Notes(1, 0, 0)},
     others \in {<< >>} \cup {<< tx >> : tx \in Others} \cup
                {<< tx, ty >> : tx \in Others, ty \in Others}}
=============================================================================
