---------------------------- MODULE CompactCodec ----------------------------
(***************************************************************************)
(* The parser of src/compact.rs: raw_block_to_compact reads the serialised *)
(* block a node sent from front to back and keeps what a wallet needs.     *)
(*                                                                         *)
(* The header and the transaction count are bytes.  A transaction is read  *)
(* by librustzcash in one go, so it is one item: its coinbase script, its  *)
(* number of Sapling spends and its new commitments by pool.  A byte has   *)
(* Base values, so that an instance needs no 256 of them.                  *)
(***************************************************************************)
EXTENDS TreeSizes, SequencesExt

CONSTANTS
  Base,            (* the values of a byte (256)                             *)
  Wide,            (* bytes that follow the three largest ones (2, 4, 8)     *)
  HeaderPrefix,    (* HEADER_PREFIX_LEN                                      *)
  Op1, OpLast,     (* OP_1 and OP_16                                         *)
  MaxPush,         (* the longest height push (8)                            *)
  GenesisBits,     (* GENESIS_TARGET_DIFFICULTY                              *)
  Blocks           (* the blocks a node serialises                           *)

ASSUME CodecAssumption ==
  /\ Base \in Nat /\ Base > 4
  /\ Wide \in [1 .. 3 -> Nat \ {0}]
  /\ HeaderPrefix \in Nat /\ MaxPush \in Nat /\ GenesisBits \in Nat
  /\ Op1 \in Nat /\ OpLast \in Nat
  /\ MaxPush < Op1 /\ Op1 <= OpLast /\ OpLast < Base

Byte == 0 .. Base - 1

Tx == [script : Seq(Byte), spends : Nat, notes : Sizes]

(* u16, u32, u64::from_le_bytes *)
LittleEndian(bytes) == FoldRight(LAMBDA b, rest : b + Base * rest, bytes, 0)

(* The value and the number of bytes it took; none when they run out. *)
Short == [value |-> 0, used |-> 0]

ReadCompactSize(bytes) ==
  LET first == bytes[1]
      width == Wide[first - (Base - 4)]
  IN  IF bytes = << >> THEN Short
      ELSE IF first < Base - 3 THEN [value |-> first, used |-> 1]
      ELSE IF Len(bytes) < 1 + width THEN Short
      ELSE [value |-> LittleEndian(SubSeq(bytes, 2, 1 + width)), used |-> 1 + width]

(* The height pushed by the script: OP_0, OP_1 .. OP_16 or a push of up to *)
(* MaxPush bytes, the bits of the genesis difficulty standing for 0.  -1   *)
(* if there is no such push.                                               *)
PushedNumber(script) ==
  LET first == script[1]
  IN  IF script = << >> THEN -1
      ELSE IF first = 0 THEN 0
      ELSE IF first \in Op1 .. OpLast THEN first - (Op1 - 1)
      ELSE IF first > MaxPush \/ Len(script) < 1 + first THEN -1
      ELSE LittleEndian(SubSeq(script, 2, 1 + first))

(* Mutant of CoinbaseHeight: the genesis block is not told apart. *)
CoinbaseNumber(script) == PushedNumber(script)

CoinbaseHeight(script) ==
  IF PushedNumber(script) = GenesisBits THEN 0 ELSE PushedNumber(script)

(* Mutant of Shielded: a transaction with Ironwood actions only is skipped. *)
ShieldedBeforeIronwood(tx) ==
  tx.spends > 0 \/ tx.notes["sapling"] > 0 \/ tx.notes["orchard"] > 0

(* to_compact_tx keeps the transactions with shielded material. *)
Shielded(tx) == tx.spends > 0 \/ ~IsZero(tx.notes)

(* commitment_counts of src/tree_sizes.rs *)
CommitmentCounts(txs) ==
  FoldLeft(LAMBDA sizes, tx : SaturatingAdd(sizes, tx.notes), ZeroSizes, txs)
-----------------------------------------------------------------------------
(* How a node serialises a block (external), and what may arrive of it.    *)

(* The number n without its w lowest bytes. *)
Higher(n, w) ==
  LET rest[i \in 0 .. w] == IF i = 0 THEN n ELSE rest[i - 1] \div Base
  IN  rest[w]

Fits(n, width) == Higher(n, width) = 0

ToBytes(n, width) == [i \in 1 .. width |-> Higher(n, i - 1) % Base]

WriteCompactSize(n) ==
  CASE n < Base - 3 -> << n >>
    [] n >= Base - 3 /\ Fits(n, Wide[1]) -> << Base - 3 >> \o ToBytes(n, Wide[1])
    [] OTHER -> << Base - 2 >> \o ToBytes(n, Wide[2])

(* BIP 34: a minimal signed number; the genesis coinbase pushes the bits.  *)
NumberPush(n) ==
  LET width == Min({w \in 1 .. MaxPush : Fits(2 * n, w)})
  IN  << width >> \o ToBytes(n, width)

HeightScript(h) ==
  CASE h = 0 -> NumberPush(GenesisBits)
    [] h \in 1 .. OpLast - Op1 + 1 -> << h + Op1 - 1 >>
    [] OTHER -> NumberPush(h)

SerialHead(b) ==
  [i \in 1 .. HeaderPrefix |-> 0] \o WriteCompactSize(b.solution) \o
  [i \in 1 .. b.solution |-> 0] \o WriteCompactSize(Len(b.txs))

(* A block: the length of its equihash solution, its transactions, and the *)
(* height its coinbase script states, -1 if it states none.  No length     *)
(* takes more than four bytes, no height a push that is too long, and none *)
(* is the number that stands for the genesis block.                        *)
ASSUME BlockAssumption ==
  /\ \E w \in 1 .. MaxPush : Fits(2 * GenesisBits, w)
  /\ \A b \in Blocks :
       /\ b.solution \in Nat /\ Fits(b.solution, Wide[2])
       /\ b.txs \in Seq(Tx) /\ Fits(Len(b.txs), Wide[2])
       /\ IF b.height = -1
          THEN b.txs = << >> \/ PushedNumber(b.txs[1].script) = -1
          ELSE /\ b.height \in Nat \ {GenesisBits}
               /\ \E w \in 1 .. MaxPush : Fits(2 * b.height, w)
               /\ b.txs # << >>
               /\ IsPrefix(HeightScript(b.height), b.txs[1].script)

SerialLength(b) == Len(SerialHead(b)) + Len(b.txs)

(* The first n items of the block, with extra bytes behind. *)
Received(b, n, extra) ==
  LET head == SerialHead(b)
      rest == IF n > Len(head) THEN n - Len(head) ELSE 0
  IN  [head  |-> SubSeq(head, 1, IF n < Len(head) THEN n ELSE Len(head)),
       txs   |-> SubSeq(b.txs, 1, rest),
       extra |-> extra]
-----------------------------------------------------------------------------
VARIABLES
  block,           (* the block the node serialised                          *)
  whole,           (* exactly that block arrived                             *)
  raw,             (* what is left to read: head bytes, transactions, extra  *)
  step,            (* what is read next                                      *)
  count, index,    (* the transaction count; transactions read               *)
  height,          (* the coinbase height, -1 before the first transaction   *)
  vtx              (* the compact transactions                               *)

codecVars == << block, whole, raw, step, count, index, height, vtx >>

CodecInit ==
  /\ block \in Blocks
  /\ \E n \in 0 .. SerialLength(block) : \E extra \in 0 .. 1 :
       /\ extra = 1 => n = SerialLength(block)
       /\ whole = (n = SerialLength(block) /\ extra = 0)
       /\ raw = Received(block, n, extra)
  /\ step = "header"
  /\ count = 0
  /\ index = 0
  /\ height = -1
  /\ vtx = << >>

Refused ==
  /\ step' = "error"
  /\ UNCHANGED << block, whole, raw, count, index, height, vtx >>

(* The bytes up to the end of the equihash solution; 0 if its length       *)
(* cannot be read.  usize does not overflow on what a node serialises.     *)
HeaderEnd ==
  LET size == ReadCompactSize(SubSeq(raw.head, HeaderPrefix + 1, Len(raw.head)))
  IN  IF Len(raw.head) < HeaderPrefix \/ size = Short
      THEN 0
      ELSE HeaderPrefix + size.used + size.value

Skip(n) == [raw EXCEPT !.head = SubSeq(@, n + 1, Len(@))]

ReadHeader ==
  /\ step = "header"
  /\ HeaderEnd > 0 /\ HeaderEnd <= Len(raw.head)
  /\ raw' = Skip(HeaderEnd)
  /\ step' = "count"
  /\ UNCHANGED << block, whole, count, index, height, vtx >>

HeaderTruncated ==
  /\ step = "header"
  /\ HeaderEnd = 0 \/ HeaderEnd > Len(raw.head)
  /\ Refused

ReadCount ==
  /\ step = "count"
  /\ LET size == ReadCompactSize(raw.head)
     IN  /\ size # Short
         /\ raw' = Skip(size.used)
         /\ count' = size.value
  /\ step' = "txs"
  /\ UNCHANGED << block, whole, index, height, vtx >>

CountTruncated ==
  /\ step = "count"
  /\ ReadCompactSize(raw.head) = Short
  /\ Refused

(* A transaction that is there; the first one must state a height. *)
Readable ==
  /\ raw.txs # << >>
  /\ index = 0 => CoinbaseHeight(Head(raw.txs).script) # -1

(* What a wallet gets of the transaction that is read. *)
Compact(i, tx) == [index |-> i, spends |-> tx.spends, notes |-> tx.notes]

(* Mutant of ReadTx: transactions are numbered among the kept ones, from 1. *)
ReadTxRenumbered ==
  /\ step = "txs"
  /\ index < count
  /\ Readable
  /\ LET tx == Head(raw.txs)
     IN  /\ height' = IF index = 0 THEN CoinbaseHeight(tx.script) ELSE height
         /\ vtx' = IF Shielded(tx) THEN Append(vtx, Compact(Len(vtx) + 1, tx)) ELSE vtx
  /\ raw' = [raw EXCEPT !.txs = Tail(@)]
  /\ index' = index + 1
  /\ UNCHANGED << block, whole, step, count >>

ReadTx ==
  /\ step = "txs"
  /\ index < count
  /\ Readable
  /\ LET tx == Head(raw.txs)
     IN  /\ height' = IF index = 0 THEN CoinbaseHeight(tx.script) ELSE height
         /\ vtx' = IF Shielded(tx) THEN Append(vtx, Compact(index, tx)) ELSE vtx
  /\ raw' = [raw EXCEPT !.txs = Tail(@)]
  /\ index' = index + 1
  /\ UNCHANGED << block, whole, step, count >>

TxUnreadable ==
  /\ step = "txs"
  /\ index < count
  /\ ~Readable
  /\ Refused

(* Mutant of Finish: what follows the last transaction is not looked at. *)
FinishEarly ==
  /\ step = "txs"
  /\ index = count
  /\ height # -1
  /\ step' = "ok"
  /\ UNCHANGED << block, whole, raw, count, index, height, vtx >>

Finish ==
  /\ step = "txs"
  /\ index = count
  /\ raw.txs = << >> /\ raw.extra = 0
  /\ height # -1
  /\ step' = "ok"
  /\ UNCHANGED << block, whole, raw, count, index, height, vtx >>

(* Trailing data, or not a single transaction. *)
FinishRefused ==
  /\ step = "txs"
  /\ index = count
  /\ raw.txs # << >> \/ raw.extra > 0 \/ height = -1
  /\ Refused

CodecNext ==
  \/ ReadHeader \/ HeaderTruncated \/ ReadCount \/ CountTruncated
  \/ ReadTx \/ TxUnreadable \/ Finish \/ FinishRefused

CodecSpec == CodecInit /\ [][CodecNext]_codecVars
-----------------------------------------------------------------------------
(* Properties. *)

(* A compact transaction is numbered by its place in the block. *)
CodecTypeOK ==
  /\ step \in {"header", "count", "txs", "ok", "error"}
  /\ count \in Nat /\ index \in 0 .. count
  /\ height \in Nat \cup {-1}
  /\ vtx \in Seq([index : 0 .. index - 1, spends : Nat, notes : Sizes])

(* The parser accepts a block if and only if all of it arrived, nothing    *)
(* came behind it and its coinbase states a height: no cut, wherever it    *)
(* falls, makes a shorter block.                                           *)
OnlyWholeBlocks ==
  step \in {"ok", "error"} => (step = "ok" <=> whole /\ block.height # -1)

(* The height that is read is the height the coinbase was given, for every *)
(* form a height is pushed in; ingest compares it with the height it asked *)
(* for and stops at the block if they differ.                              *)
HeightSurvives == step = "ok" => height = block.height

HasMaterial ==
  {i \in DOMAIN block.txs :
     LET tx == block.txs[i]
     IN  tx.spends + tx.notes["sapling"] + tx.notes["orchard"] + tx.notes["ironwood"] > 0}

(* Nothing a wallet or the tree sizes depend on is dropped: the compact    *)
(* transactions are the shielded ones in order, each with its index in the *)
(* block, and their commitments are all the commitments of the block.      *)
KeepsShielded ==
  step = "ok" =>
    /\ ToSet(vtx) = {Compact(i - 1, block.txs[i]) : i \in HasMaterial}
    /\ \A i, j \in DOMAIN vtx : i < j => vtx[i].index < vtx[j].index
    /\ CommitmentCounts(vtx) = CommitmentCounts(block.txs)
=============================================================================
