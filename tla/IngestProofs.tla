---------------------------- MODULE IngestProofs ----------------------------
(***************************************************************************)
(* Proofs about Ingest, for every forest of blocks, every configuration    *)
(* and every interleaving of the ingest task with the node: that the rows  *)
(* are an interval of one network's blocks, which of them can be off the   *)
(* active chain, and which carry the true tree sizes.                      *)
(***************************************************************************)
EXTENDS Ingest, TLAPS

(* The locals of the pass are set in the steps that use them. *)
PassOK ==
  /\ pc \in {"record", "prune", "plan", "hash"} \cup BlockSteps =>
       pass.tip \in Heights
  /\ pc \in {"hash"} \cup BlockSteps =>
       pass.height \in Heights /\ pass.height <= pass.tip
  /\ pc \in BlockSteps =>
       /\ pass.block \in Block
       /\ Height(pass.block) = pass.height
       /\ ChainName(pass.block) = ChainName(best)
  /\ pc \notin BlockSteps => pass.block = None
  /\ pc \in {"treestate", "seedhash", "seedblock"} => pass.height > 0
  /\ pc = "seedblock" => pass.seed \in Block
  /\ pc = "put" => pass.base \in Sizes

(* The stored heights are an interval. *)
Interval ==
  \/ DOMAIN rows = {}
  \/ \E lo, hi \in Heights : lo <= hi /\ DOMAIN rows = lo .. hi

(* The height being ingested is the one above the store, then its top. *)
SlotOK ==
  /\ pc \in {"hash"} \cup (BlockSteps \ {"mark"}) =>
       \/ DOMAIN rows = {}
       \/ HasRow(pass.height - 1) /\ MaxHeight = pass.height - 1
  /\ pc = "mark" => HasRow(pass.height) /\ MaxHeight = pass.height

(* The base of a block is what the row below it says, if it says anything. *)
BaseOK ==
  /\ pc \in {"treestate", "seedhash", "seedblock"} =>
       IsZero(StoredSizes(pass.height - 1))
  /\ pc = "put" /\ ~IsZero(StoredSizes(pass.height - 1)) =>
       pass.base = StoredSizes(pass.height - 1)

(* Past bootstrap the node is on the configured network. *)
NetworkOK == pc \notin {"down", "boot"} => NetworkMatches

IInv ==
  /\ TypeOK
  /\ PassOK
  /\ Interval
  /\ NothingAboveTip
  /\ SlotOK
  /\ BaseOK
  /\ NetworkOK
  /\ RowsInPlace
  /\ SizesAccumulate
-----------------------------------------------------------------------------
(* Facts about the forest. *)

(* A block has a height, and every height below it is a height as well. *)
LEMMA HeightFacts ==
  ASSUME NEW b \in Block
  PROVE  /\ Height(b) \in Nat
         /\ Height(b) \in Heights
         /\ 0 .. Height(b) \subseteq Heights
<1>1. /\ Chain[b] \in Seq(Block)
      /\ Len(Chain[b]) > 0
  BY ChainAssumption
<1>2. Height(b) \in Nat
  BY <1>1 DEF Height
<1>3. ASSUME NEW h \in 0 .. Height(b) PROVE h \in Heights
  <2>1. h + 1 \in 1 .. Len(Chain[b])
    BY <1>1, <1>2 DEF Height
  <2>2. Chain[b][h + 1] \in Block
    BY <1>1, <2>1
  <2>3. Len(Chain[Chain[b][h + 1]]) = h + 1
    BY <2>1, ChainAssumption
  <2>4. Height(Chain[b][h + 1]) = h
    BY <2>3, <1>2 DEF Height
  <2> QED
    BY <2>2, <2>4 DEF Heights
<1> QED
  BY <1>2, <1>3 DEF Heights

(* The block at a height of a chain is a block of that height and chain. *)
LEMMA BlockAtFacts ==
  ASSUME NEW b \in Block, NEW h \in 0 .. Height(b)
  PROVE  /\ BlockAt(b, h) \in Block
         /\ Height(BlockAt(b, h)) = h
         /\ ChainName(BlockAt(b, h)) = ChainName(b)
         /\ OnChain(BlockAt(b, h), b)
<1>1. /\ Chain[b] \in Seq(Block)
      /\ Len(Chain[b]) > 0
  BY ChainAssumption
<1>2. h + 1 \in 1 .. Len(Chain[b]) /\ h \in Int
  BY <1>1, HeightFacts DEF Height
<1>3. BlockAt(b, h) \in Block
  BY <1>1, <1>2 DEF BlockAt
<1>4. Len(Chain[BlockAt(b, h)]) = h + 1
  BY <1>2, ChainAssumption DEF BlockAt
<1>5. Height(BlockAt(b, h)) = h
  BY <1>2, <1>4 DEF Height
<1>6. ChainName(BlockAt(b, h)) = ChainName(b)
  BY <1>2, ChainAssumption DEF BlockAt, ChainName
<1> QED
  BY <1>3, <1>5, <1>6 DEF OnChain

LEMMA ChainNameFacts ==
  ASSUME NEW b \in Block
  PROVE  ChainName(b) \in Block
<1>1. Chain[b] \in Seq(Block) /\ Len(Chain[b]) > 0
  BY ChainAssumption
<1> QED
  BY <1>1 DEF ChainName

LEMMA HeightsFacts == Heights \subseteq Nat
  BY HeightFacts DEF Heights

(* The heights below a height of a block are heights of blocks. *)
LEMMA HeightsClosed ==
  ASSUME NEW m \in Heights
  PROVE  0 .. m \subseteq Heights
  BY HeightFacts DEF Heights
-----------------------------------------------------------------------------
(* Facts about tree sizes and about the store. *)

LEMMA SizesFacts ==
  /\ ZeroSizes \in Sizes
  /\ \A s, d \in Sizes : SaturatingAdd(s, d) \in Sizes
  /\ \A b \in Block : /\ TreeSizesFromTreestate(TreestateReply(b)) \in Sizes
                      /\ TreeSizesFromGetblock(TreesReply(b)) \in Sizes
<1>1. ZeroSizes \in Sizes
  BY U32Assumption DEF ZeroSizes, Sizes
<1>2. \A s, d \in Sizes : SaturatingAdd(s, d) \in Sizes
  BY U32Assumption DEF SaturatingAdd, Sizes
<1>3. ASSUME NEW b \in Block
      PROVE  /\ TreeSizesFromTreestate(TreestateReply(b)) \in Sizes
             /\ TreeSizesFromGetblock(TreesReply(b)) \in Sizes
  <2>1. TreeSize[b] \in [Pools -> 0 .. U32Max]
    BY TreeSizeAssumption DEF Sizes
  <2> QED
    BY <2>1, U32Assumption, ReplyAssumption
    DEF TreeSizesFromTreestate, TreestateReply, TreeSizesFromGetblock,
        TreesReply, PoolJsonSize, Sizes
<1> QED
  BY <1>1, <1>2, <1>3

(* SELECT MAX(height) on an interval. *)
LEMMA MaxOfInterval ==
  ASSUME NEW lo \in Nat, NEW hi \in Nat, lo <= hi
  PROVE  Max(lo .. hi) = hi
<1>1. hi \in lo .. hi /\ \A y \in lo .. hi : hi >= y
  OBVIOUS
<1>2. \A x \in lo .. hi : (\A y \in lo .. hi : x >= y) => x = hi
  OBVIOUS
<1> QED
  BY <1>1, <1>2 DEF Max

LEMMA MaxOfPair ==
  ASSUME NEW m \in Int, NEW n \in Int
  PROVE  /\ Max({m, n}) = IF m >= n THEN m ELSE n
         /\ Min({m, n}) = IF m >= n THEN n ELSE m
<1>1. Max({m, n}) = IF m >= n THEN m ELSE n
  <2>1. \A x \in {m, n} : (\A y \in {m, n} : x >= y) <=> x = IF m >= n THEN m ELSE n
    OBVIOUS
  <2> QED
    BY <2>1 DEF Max
<1>2. Min({m, n}) = IF m >= n THEN n ELSE m
  <2>1. \A x \in {m, n} : (\A y \in {m, n} : x =< y) <=> x = IF m >= n THEN n ELSE m
    OBVIOUS
  <2> QED
    BY <2>1 DEF Min
<1> QED
  BY <1>1, <1>2

(* Once a start height is configured the backfill has no say: the maximum  *)
(* of the start height and something not above it is the start height.     *)
LEMMA FirstHeightValue ==
  ASSUME NEW tip \in Nat
  PROVE  FirstHeight(tip) =
           IF StartHeight > 0 THEN StartHeight ELSE SaturatingSub(tip, Backfill)
<1> DEFINE low == SaturatingSub(tip, Backfill)
           least == Min({low, StartHeight})
<1>1. low \in Int /\ StartHeight \in Nat
  BY ConfigAssumption DEF SaturatingSub
<1>2. least \in Int /\ least <= StartHeight
  BY <1>1, MaxOfPair
<1>3. Max({StartHeight, least}) = StartHeight
  BY <1>1, <1>2, MaxOfPair
<1> QED
  BY <1>3 DEF FirstHeight

LEMMA MaxHeightFacts ==
  ASSUME Interval
  PROVE  /\ DOMAIN rows = {} => MaxHeight = None
         /\ DOMAIN rows # {} =>
              /\ MaxHeight \in Heights
              /\ MaxHeight \in DOMAIN rows
              /\ \A h \in DOMAIN rows : h \in Nat /\ h <= MaxHeight
<1>1. CASE DOMAIN rows = {}
  BY <1>1 DEF MaxHeight
<1>2. CASE DOMAIN rows # {}
  <2>1. PICK lo \in Heights, hi \in Heights : lo <= hi /\ DOMAIN rows = lo .. hi
    BY <1>2 DEF Interval
  <2>2. lo \in Nat /\ hi \in Nat
    BY HeightsFacts
  <2>3. MaxHeight = hi
    BY <1>2, <2>1, <2>2, MaxOfInterval DEF MaxHeight
  <2> QED
    BY <1>2, <2>1, <2>2, <2>3
<1> QED
  BY <1>1, <1>2
-----------------------------------------------------------------------------
(* IInv is inductive. *)

LEMMA InitIInv == Init => IInv
<1> SUFFICES ASSUME Init PROVE IInv
  OBVIOUS
<1>1. CASE rows = NoRows
  BY <1>1, NoneAssumption
  DEF Init, IInv, TypeOK, PassOK, Interval, NothingAboveTip, SlotOK, BaseOK,
      NetworkOK, RowsInPlace, SizesAccumulate, NoRows, NoMeta, NoPass, Steps,
      BlockSteps, MetaKeys, ChainBlocks
<1>2. CASE rows = PreS11Rows
  <2>1. best \in Block /\ Height(best) \in Nat /\ 0 .. Height(best) \subseteq Heights
    BY HeightFacts DEF Init
  <2>2. DOMAIN rows = {h \in PreS11Lo .. PreS11Hi : h <= Height(best)}
    BY <1>2 DEF PreS11Rows, PreS11
  <2>3. \A h \in DOMAIN rows : h \in 0 .. Height(best)
    BY <2>1, <2>2, PreS11Assumption
  <2>4. \A h \in DOMAIN rows :
          rows[h] = [block |-> BlockAt(best, h), sizes |-> ZeroSizes]
    BY <1>2 DEF PreS11Rows
  <2>5. TypeOK
    <3>1. DOMAIN rows \subseteq Heights
      BY <2>1, <2>3
    <3>2. \A h \in DOMAIN rows : rows[h] \in Row
      BY <2>1, <2>3, <2>4, BlockAtFacts, SizesFacts DEF Row
    <3> QED
      BY <3>1, <3>2 DEF Init, TypeOK, NoMeta, NoPass, Steps, ChainBlocks
  <2>6. RowsInPlace
    BY <2>1, <2>3, <2>4, BlockAtFacts DEF Init, RowsInPlace, NetworkMatches
  <2>7. SizesAccumulate
    BY <2>4 DEF SizesAccumulate, HasRow, IsZero, ZeroSizes
  <2>9. Interval
    <3>1. CASE DOMAIN rows = {}
      BY <3>1 DEF Interval
    <3>2. CASE DOMAIN rows # {}
      <4> DEFINE hi == IF PreS11Hi <= Height(best) THEN PreS11Hi ELSE Height(best)
      <4>1. PreS11Lo <= hi /\ DOMAIN rows = PreS11Lo .. hi
        BY <2>1, <2>2, <3>2, PreS11Assumption
      <4>2. PreS11Lo \in DOMAIN rows /\ hi \in DOMAIN rows
        BY <4>1, <2>1, PreS11Assumption
      <4>3. PreS11Lo \in Heights /\ hi \in Heights
        BY <4>2, <2>1, <2>3
      <4> QED
        BY <4>1, <4>3 DEF Interval
    <3> QED
      BY <3>1, <3>2
  <2>10. PassOK /\ NothingAboveTip /\ SlotOK /\ BaseOK /\ NetworkOK
    BY DEF Init, PassOK, NothingAboveTip, SlotOK, BaseOK, NetworkOK, BlockSteps,
           NoPass
  <2> QED
    BY <2>5, <2>6, <2>7, <2>10, <2>9 DEF IInv
<1> QED
  BY <1>1, <1>2 DEF Init

LEMMA IntervalIsContiguous == Interval => Contiguous
<1> SUFFICES ASSUME Interval, NEW h \in DOMAIN rows, NEW k \in DOMAIN rows,
                    NEW i \in h .. k
             PROVE  i \in DOMAIN rows
  BY DEF Contiguous, HasRow
<1>1. PICK lo \in Heights, hi \in Heights : DOMAIN rows = lo .. hi
  BY DEF Interval
<1> QED
  BY <1>1, HeightsFacts

LEMMA NextHeightFacts ==
  ASSUME Interval, NEW tip \in Heights
  PROVE  /\ NextHeight(tip) \in Nat
         /\ DOMAIN rows # {} => NextHeight(tip) = MaxHeight + 1
<1>1. tip \in Nat
  BY HeightsFacts
<1>2. FirstHeight(tip) \in Nat
  BY <1>1, FirstHeightValue, ConfigAssumption DEF SaturatingSub
<1>3. CASE DOMAIN rows = {}
  BY <1>2, <1>3, MaxHeightFacts DEF NextHeight
<1>4. CASE DOMAIN rows # {}
  <2>1. MaxHeight \in Nat
    BY <1>4, MaxHeightFacts, HeightsFacts
  <2> QED
    BY <2>1, <1>4, NoneAssumption DEF NextHeight
<1> QED
  BY <1>3, <1>4

(* What depends on the rows alone survives a step that leaves them alone.  *)
LEMMA RowsUntouched ==
  ASSUME IInv, UNCHANGED rows
  PROVE  /\ Interval'
         /\ RowsInPlace'
         /\ SizesAccumulate'
         /\ MaxHeight' = MaxHeight
         /\ \A h : HasRow(h)' = HasRow(h)
         /\ \A h : StoredSizes(h)' = StoredSizes(h)
  BY DEF IInv, Interval, RowsInPlace, SizesAccumulate, MaxHeight, HasRow,
         StoredSizes

(* What the prune does, also when it has nothing to do. *)
LEMMA PruneEffect ==
  ASSUME IInv, Prune
  PROVE  /\ DOMAIN rows' = {h \in DOMAIN rows : h <= pass.tip}
         /\ \A h \in DOMAIN rows' : rows'[h] = rows[h]
<1>1. pass.tip \in Nat
  BY HeightsFacts DEF Prune, IInv, PassOK
<1>2. CASE MaxHeight # None /\ MaxHeight > pass.tip
  BY <1>2 DEF Prune, PruneAbove, Restrict
<1>3. CASE ~(MaxHeight # None /\ MaxHeight > pass.tip)
  <2>1. \A h \in DOMAIN rows : h <= pass.tip
    BY <1>1, <1>3, MaxHeightFacts, HeightsFacts, NoneAssumption DEF IInv
  <2> QED
    BY <1>3, <2>1 DEF Prune
<1> QED
  BY <1>2, <1>3

PutRow ==
  [block |-> pass.block,
   sizes |-> SaturatingAdd(pass.base, NewNotes[pass.block])]

(* A put appends: the upsert never meets a row. *)
LEMMA PutEffect ==
  ASSUME IInv, Put
  PROVE  /\ \A h \in DOMAIN rows : h \in Nat /\ h < pass.height
         /\ DOMAIN rows # {} => pass.height - 1 \in DOMAIN rows
         /\ DOMAIN rows' = DOMAIN rows \cup {pass.height}
         /\ rows'[pass.height] = PutRow
         /\ \A h \in DOMAIN rows : rows'[h] = rows[h]
<1>1. pass.height \in Nat
  BY HeightsFacts DEF Put, IInv, PassOK, BlockSteps
<1>2. /\ \A h \in DOMAIN rows : h \in Nat /\ h < pass.height
      /\ DOMAIN rows # {} => pass.height - 1 \in DOMAIN rows
  BY <1>1, MaxHeightFacts DEF Put, IInv, SlotOK, HasRow, BlockSteps
<1> QED
  BY <1>2 DEF Put, PutCompactBlock, PutRow

LEMMA StepIInv == IInv /\ [Next]_vars => IInv'
<1> SUFFICES ASSUME IInv, [Next]_vars PROVE IInv'
  OBVIOUS
<1> USE DEF IInv, Steps, BlockSteps, NoPass, EndPass, MetaKeys, SetMeta
<1>1. CASE Restart
  <2>1. TypeOK' /\ PassOK'
    BY <1>1 DEF Restart, TypeOK, PassOK
  <2>2. NothingAboveTip' /\ SlotOK' /\ BaseOK' /\ NetworkOK'
    BY <1>1, RowsUntouched
    DEF Restart, TypeOK, PassOK, NothingAboveTip, SlotOK, BaseOK, NetworkOK,
        NetworkMatches, StoredSizes, HasRow
  <2> QED
    BY <1>1, <2>1, <2>2, RowsUntouched DEF Restart
<1>2. CASE Boot
  <2>1. TypeOK' /\ PassOK'
    BY <1>2, ChainNameFacts DEF Boot, TypeOK, PassOK
  <2>2. NothingAboveTip' /\ SlotOK' /\ BaseOK' /\ NetworkOK'
    BY <1>2, RowsUntouched
    DEF Boot, TypeOK, PassOK, NothingAboveTip, SlotOK, BaseOK, NetworkOK,
        NetworkMatches, StoredSizes, HasRow
  <2> QED
    BY <1>2, <2>1, <2>2, RowsUntouched DEF Boot
<1>3. CASE BootFails
  <2>1. TypeOK' /\ PassOK'
    <3>1. CASE UNCHANGED meta
      BY <1>3, <3>1 DEF BootFails, TypeOK, PassOK
    <3>2. CASE SetMeta("chain", ChainName(best))
      BY <1>3, <3>2, ChainNameFacts DEF BootFails, TypeOK, PassOK
    <3> QED
      BY <1>3, <3>1, <3>2 DEF BootFails
  <2>2. NothingAboveTip' /\ SlotOK' /\ BaseOK' /\ NetworkOK'
    BY <1>3, RowsUntouched
    DEF BootFails, TypeOK, PassOK, NothingAboveTip, SlotOK, BaseOK, NetworkOK,
        NetworkMatches, StoredSizes, HasRow
  <2> QED
    BY <1>3, <2>1, <2>2, RowsUntouched DEF BootFails
<1>4. CASE Poll
  <2>1. TypeOK' /\ PassOK'
    BY <1>4, HeightFacts DEF Poll, TypeOK, PassOK
  <2>2. NothingAboveTip' /\ SlotOK' /\ BaseOK' /\ NetworkOK'
    BY <1>4, RowsUntouched
    DEF Poll, TypeOK, PassOK, NothingAboveTip, SlotOK, BaseOK, NetworkOK,
        NetworkMatches, StoredSizes, HasRow
  <2> QED
    BY <1>4, <2>1, <2>2, RowsUntouched DEF Poll
<1>5. CASE RecordTip
  <2>1. TypeOK' /\ PassOK'
    BY <1>5 DEF RecordTip, TypeOK, PassOK
  <2>2. NothingAboveTip' /\ SlotOK' /\ BaseOK' /\ NetworkOK'
    BY <1>5, RowsUntouched
    DEF RecordTip, TypeOK, PassOK, NothingAboveTip, SlotOK, BaseOK, NetworkOK,
        NetworkMatches, StoredSizes, HasRow
  <2> QED
    BY <1>5, <2>1, <2>2, RowsUntouched DEF RecordTip
<1>6. CASE UpToDate
  <2>1. TypeOK' /\ PassOK'
    BY <1>6 DEF UpToDate, TypeOK, PassOK
  <2>2. NothingAboveTip' /\ SlotOK' /\ BaseOK' /\ NetworkOK'
    BY <1>6, RowsUntouched
    DEF UpToDate, TypeOK, PassOK, NothingAboveTip, SlotOK, BaseOK, NetworkOK,
        NetworkMatches, StoredSizes, HasRow
  <2> QED
    BY <1>6, <2>1, <2>2, RowsUntouched DEF UpToDate
<1>7. CASE Plan
  <2>1. pass.tip \in Heights /\ pass.tip \in Nat
    BY <1>7, HeightsFacts DEF Plan, PassOK
  <2>2. NextHeight(pass.tip) \in 0 .. pass.tip
    BY <1>7, <2>1, NextHeightFacts DEF Plan
  <2>3. NextHeight(pass.tip) \in Heights
    BY <2>1, <2>2, HeightsClosed
  <2>4. TypeOK' /\ PassOK'
    BY <1>7, <2>1, <2>2, <2>3 DEF Plan, TypeOK, PassOK
  <2>5. \/ DOMAIN rows = {}
        \/ /\ HasRow(NextHeight(pass.tip) - 1)
           /\ MaxHeight = NextHeight(pass.tip) - 1
    <3>1. CASE DOMAIN rows # {}
      <4>1. MaxHeight \in Nat /\ NextHeight(pass.tip) = MaxHeight + 1
        BY <3>1, <2>1, NextHeightFacts, MaxHeightFacts, HeightsFacts
      <4>2. MaxHeight = NextHeight(pass.tip) - 1
        BY <4>1
      <4> QED
        BY <3>1, <4>2, MaxHeightFacts DEF HasRow
    <3> QED
      BY <3>1
  <2>6. SlotOK'
    BY <1>7, <2>5, RowsUntouched DEF Plan, TypeOK, SlotOK, HasRow
  <2>7. NothingAboveTip' /\ BaseOK' /\ NetworkOK'
    BY <1>7 DEF Plan, TypeOK, NothingAboveTip, BaseOK, NetworkOK, NetworkMatches
  <2> QED
    BY <1>7, <2>4, <2>6, <2>7, RowsUntouched DEF Plan
<1>8. CASE FetchHash
  <2>1. best \in Block /\ pass.height \in 0 .. Height(best)
    BY <1>8, HeightFacts, HeightsFacts DEF FetchHash, TypeOK, PassOK
  <2>2. TypeOK' /\ PassOK'
    BY <1>8, <2>1, BlockAtFacts DEF FetchHash, TypeOK, PassOK
  <2>3. NothingAboveTip' /\ SlotOK' /\ BaseOK' /\ NetworkOK'
    BY <1>8, RowsUntouched
    DEF FetchHash, TypeOK, NothingAboveTip, SlotOK, BaseOK, NetworkOK,
        NetworkMatches, HasRow
  <2> QED
    BY <1>8, <2>2, <2>3, RowsUntouched DEF FetchHash
<1>9. CASE HeightGone
  <2>1. TypeOK' /\ PassOK'
    BY <1>9 DEF HeightGone, TypeOK, PassOK
  <2>2. NothingAboveTip' /\ SlotOK' /\ BaseOK' /\ NetworkOK'
    BY <1>9, RowsUntouched
    DEF HeightGone, TypeOK, PassOK, NothingAboveTip, SlotOK, BaseOK, NetworkOK,
        NetworkMatches, StoredSizes, HasRow
  <2> QED
    BY <1>9, <2>1, <2>2, RowsUntouched DEF HeightGone
<1>10. CASE FetchRaw
  <2>1. TypeOK' /\ PassOK'
    BY <1>10 DEF FetchRaw, TypeOK, PassOK
  <2>2. NothingAboveTip' /\ SlotOK' /\ BaseOK' /\ NetworkOK'
    BY <1>10, RowsUntouched
    DEF FetchRaw, TypeOK, PassOK, NothingAboveTip, SlotOK, BaseOK, NetworkOK,
        NetworkMatches, StoredSizes, HasRow
  <2> QED
    BY <1>10, <2>1, <2>2, RowsUntouched DEF FetchRaw
<1>11. CASE RejectRaw
  <2>1. TypeOK' /\ PassOK'
    BY <1>11 DEF RejectRaw, TypeOK, PassOK
  <2>2. NothingAboveTip' /\ SlotOK' /\ BaseOK' /\ NetworkOK'
    BY <1>11, RowsUntouched
    DEF RejectRaw, TypeOK, PassOK, NothingAboveTip, SlotOK, BaseOK, NetworkOK,
        NetworkMatches, StoredSizes, HasRow
  <2> QED
    BY <1>11, <2>1, <2>2, RowsUntouched DEF RejectRaw
<1>12. CASE GenesisBase
  <2>1. TypeOK' /\ PassOK'
    BY <1>12, SizesFacts DEF GenesisBase, TypeOK, PassOK
  <2>2. NothingAboveTip' /\ SlotOK' /\ BaseOK' /\ NetworkOK'
    BY <1>12, RowsUntouched, HeightsFacts
    DEF GenesisBase, TypeOK, PassOK, NothingAboveTip, SlotOK, BaseOK, NetworkOK,
        NetworkMatches, StoredSizes, HasRow, IsZero, ZeroSizes
  <2> QED
    BY <1>12, <2>1, <2>2, RowsUntouched DEF GenesisBase
<1>13. CASE StoredBase
  <2>1. StoredSizes(pass.height - 1) \in Sizes
    BY SizesFacts DEF StoredSizes, HasRow, TypeOK, Row
  <2>2. TypeOK' /\ PassOK'
    BY <1>13, <2>1 DEF StoredBase, TypeOK, PassOK
  <2>3. NothingAboveTip' /\ SlotOK' /\ BaseOK' /\ NetworkOK'
    BY <1>13, RowsUntouched
    DEF StoredBase, TypeOK, PassOK, NothingAboveTip, SlotOK, BaseOK, NetworkOK,
        NetworkMatches, StoredSizes, HasRow
  <2> QED
    BY <1>13, <2>2, <2>3, RowsUntouched DEF StoredBase
<1>14. CASE NeedSeed
  <2>1. TypeOK' /\ PassOK'
    BY <1>14 DEF NeedSeed, TypeOK, PassOK
  <2>2. NothingAboveTip' /\ SlotOK' /\ BaseOK' /\ NetworkOK'
    BY <1>14, RowsUntouched
    DEF NeedSeed, TypeOK, PassOK, NothingAboveTip, SlotOK, BaseOK, NetworkOK,
        NetworkMatches, StoredSizes, HasRow
  <2> QED
    BY <1>14, <2>1, <2>2, RowsUntouched DEF NeedSeed
<1>15. CASE SeedTreestate
  <2>1. best \in Block /\ pass.height - 1 \in 0 .. Height(best)
    BY <1>15, HeightFacts, HeightsFacts DEF SeedTreestate, TypeOK, PassOK
  <2>2. TypeOK' /\ PassOK'
    BY <1>15, <2>1, BlockAtFacts, SizesFacts DEF SeedTreestate, TypeOK, PassOK
  <2>3. NothingAboveTip' /\ SlotOK' /\ BaseOK' /\ NetworkOK'
    BY <1>15, RowsUntouched
    DEF SeedTreestate, TypeOK, NothingAboveTip, SlotOK, BaseOK, NetworkOK,
        NetworkMatches, StoredSizes, HasRow
  <2> QED
    BY <1>15, <2>2, <2>3, RowsUntouched DEF SeedTreestate
<1>16. CASE TreestateUnusable
  <2>1. TypeOK' /\ PassOK'
    BY <1>16 DEF TreestateUnusable, TypeOK, PassOK
  <2>2. NothingAboveTip' /\ SlotOK' /\ BaseOK' /\ NetworkOK'
    BY <1>16, RowsUntouched
    DEF TreestateUnusable, TypeOK, PassOK, NothingAboveTip, SlotOK, BaseOK, NetworkOK,
        NetworkMatches, StoredSizes, HasRow
  <2> QED
    BY <1>16, <2>1, <2>2, RowsUntouched DEF TreestateUnusable
<1>17. CASE SeedHash
  <2>1. best \in Block /\ pass.height - 1 \in 0 .. Height(best)
    BY <1>17, HeightFacts, HeightsFacts DEF SeedHash, TypeOK, PassOK
  <2>2. TypeOK' /\ PassOK'
    BY <1>17, <2>1, BlockAtFacts, SizesFacts DEF SeedHash, TypeOK, PassOK
  <2>3. NothingAboveTip' /\ SlotOK' /\ BaseOK' /\ NetworkOK'
    BY <1>17, RowsUntouched
    DEF SeedHash, TypeOK, NothingAboveTip, SlotOK, BaseOK, NetworkOK,
        NetworkMatches, StoredSizes, HasRow
  <2> QED
    BY <1>17, <2>2, <2>3, RowsUntouched DEF SeedHash
<1>18. CASE SeedBlock
  <2>1. TypeOK' /\ PassOK'
    BY <1>18, SizesFacts DEF SeedBlock, TypeOK, PassOK
  <2>2. NothingAboveTip' /\ SlotOK' /\ BaseOK' /\ NetworkOK'
    BY <1>18, RowsUntouched
    DEF SeedBlock, TypeOK, PassOK, NothingAboveTip, SlotOK, BaseOK, NetworkOK,
        NetworkMatches, StoredSizes, HasRow
  <2> QED
    BY <1>18, <2>1, <2>2, RowsUntouched DEF SeedBlock
<1>19. CASE SeedFails
  <2>1. TypeOK' /\ PassOK'
    BY <1>19, SizesFacts DEF SeedFails, TypeOK, PassOK
  <2>2. NothingAboveTip' /\ SlotOK' /\ BaseOK' /\ NetworkOK'
    BY <1>19, RowsUntouched
    DEF SeedFails, TypeOK, PassOK, NothingAboveTip, SlotOK, BaseOK, NetworkOK,
        NetworkMatches, StoredSizes, HasRow
  <2> QED
    BY <1>19, <2>1, <2>2, RowsUntouched DEF SeedFails
<1>20. CASE Prune
  <2>1. pass.tip \in Heights /\ pass.tip \in Nat
    BY <1>20, HeightsFacts DEF Prune, PassOK
  <2>2. /\ DOMAIN rows' = {h \in DOMAIN rows : h <= pass.tip}
        /\ \A h \in DOMAIN rows' : rows'[h] = rows[h]
    BY <1>20, PruneEffect
  <2>3. Interval'
    <3>1. CASE DOMAIN rows = {}
      BY <3>1, <2>2 DEF Interval
    <3>2. CASE DOMAIN rows # {}
      <4>1. PICK lo \in Heights, hi \in Heights : lo <= hi /\ DOMAIN rows = lo .. hi
        BY <3>2 DEF Interval
      <4>2. lo \in Nat /\ hi \in Nat
        BY HeightsFacts
      <4>3. CASE pass.tip < lo
        <5>1. DOMAIN rows' = {}
          BY <4>1, <4>2, <4>3, <2>1, <2>2
        <5> QED
          BY <5>1 DEF Interval
      <4>4. CASE lo <= pass.tip /\ pass.tip < hi
        <5>1. DOMAIN rows' = lo .. pass.tip
          BY <4>1, <4>2, <4>4, <2>1, <2>2
        <5> QED
          BY <5>1, <4>4, <2>1 DEF Interval
      <4>5. CASE hi <= pass.tip
        <5>1. DOMAIN rows' = lo .. hi
          BY <4>1, <4>2, <4>5, <2>1, <2>2
        <5> QED
          BY <5>1, <4>1 DEF Interval
      <4> QED
        BY <4>2, <4>3, <4>4, <4>5, <2>1
    <3> QED
      BY <3>1, <3>2
  <2>4. TypeOK' /\ PassOK'
    <3>1. seen' \subseteq Block
      BY <1>20 DEF Prune, ForgetAbove, ChainBlocks, TypeOK
    <3> QED
      BY <1>20, <2>2, <3>1 DEF Prune, TypeOK, PassOK
  <2>5. NothingAboveTip' /\ SlotOK' /\ BaseOK' /\ NetworkOK'
    BY <1>20, <2>2
    DEF Prune, NothingAboveTip, SlotOK, BaseOK, NetworkOK, NetworkMatches
  <2>6. RowsInPlace' /\ SizesAccumulate'
    BY <2>2 DEF RowsInPlace, SizesAccumulate, HasRow
  <2> QED
    BY <2>3, <2>4, <2>5, <2>6
<1>21. CASE Put
  <2>1. /\ pass.tip \in Nat /\ pass.height \in Heights /\ pass.height \in Nat
        /\ pass.height <= pass.tip
        /\ pass.block \in Block /\ Height(pass.block) = pass.height
        /\ ChainName(pass.block) = ChainName(best)
        /\ pass.base \in Sizes
    BY <1>21, HeightsFacts DEF Put, PassOK
  <2>2. PutRow \in Row
    BY <2>1, SizesFacts, TreeSizeAssumption DEF PutRow, Row
  <2>3. /\ \A h \in DOMAIN rows : h \in Nat /\ h < pass.height
        /\ DOMAIN rows # {} => pass.height - 1 \in DOMAIN rows
    BY <1>21, PutEffect
  <2>4. /\ DOMAIN rows' = DOMAIN rows \cup {pass.height}
        /\ rows'[pass.height] = PutRow
        /\ \A h \in DOMAIN rows : rows'[h] = rows[h]
    BY <1>21, PutEffect
  <2>5. Interval' /\ MaxHeight' = pass.height
    <3>1. PICK lo \in Heights : lo <= pass.height /\ DOMAIN rows' = lo .. pass.height
      <4>1. CASE DOMAIN rows = {}
        <5>1. DOMAIN rows' = pass.height .. pass.height
          BY <4>1, <2>1, <2>4
        <5> QED
          BY <5>1, <2>1
      <4>2. CASE DOMAIN rows # {}
        <5>1. PICK lo \in Heights, hi \in Heights : lo <= hi /\ DOMAIN rows = lo .. hi
          BY <4>2 DEF Interval
        <5>2. lo \in Nat /\ hi \in Nat
          BY HeightsFacts
        <5>3. hi = pass.height - 1
          BY <5>1, <5>2, <4>2, <2>1, <2>3
        <5>4. lo <= pass.height /\ DOMAIN rows' = lo .. pass.height
          BY <5>1, <5>2, <5>3, <2>1, <2>4
        <5> QED
          BY <5>4
      <4> QED
        BY <4>1, <4>2
    <3>2. lo \in Nat
      BY HeightsFacts
    <3>3. Max(lo .. pass.height) = pass.height
      BY <3>1, <3>2, <2>1, MaxOfInterval
    <3>4. MaxHeight' = pass.height
      BY <3>1, <3>3, <2>4 DEF MaxHeight
    <3> QED
      BY <3>1, <3>4, <2>1 DEF Interval
  <2>6. TypeOK' /\ PassOK'
    BY <1>21, <2>1, <2>2, <2>4 DEF Put, TypeOK, PassOK
  <2>7. NothingAboveTip' /\ SlotOK' /\ BaseOK' /\ NetworkOK'
    BY <1>21, <2>1, <2>3, <2>4, <2>5
    DEF Put, NothingAboveTip, SlotOK, BaseOK, NetworkOK, NetworkMatches, HasRow
  <2>8. RowsInPlace'
    BY <1>21, <2>1, <2>4 DEF Put, RowsInPlace, NetworkOK, NetworkMatches, PutRow
  <2>9. SizesAccumulate'
    <3> SUFFICES ASSUME NEW h \in DOMAIN rows',
                        HasRow(h - 1)', ~IsZero(rows'[h - 1].sizes)
                 PROVE  rows'[h].sizes =
                          SaturatingAdd(rows'[h - 1].sizes, NewNotes[rows'[h].block])
      BY DEF SizesAccumulate
    <3>1. h - 1 \in DOMAIN rows
      BY <2>1, <2>3, <2>4 DEF HasRow
    <3>2. CASE h = pass.height
      BY <1>21, <3>1, <3>2, <2>4 DEF Put, BaseOK, StoredSizes, HasRow, PutRow
    <3>3. CASE h \in DOMAIN rows
      BY <3>1, <3>3, <2>4 DEF SizesAccumulate, HasRow
    <3> QED
      BY <3>2, <3>3, <2>4
  <2> QED
    BY <2>5, <2>6, <2>7, <2>8, <2>9
<1>22. CASE MarkIndexed
  <2>1. pass.tip \in Heights /\ pass.height \in Heights /\ pass.height <= pass.tip
    BY <1>22 DEF MarkIndexed, PassOK
  <2>2. pass.tip \in Nat /\ pass.height \in Nat
    BY <2>1, HeightsFacts
  <2>3. pass.height < pass.tip => pass.height + 1 \in Heights
    BY <2>1, <2>2, HeightsClosed
  <2>4. NothingAboveTip' /\ BaseOK' /\ NetworkOK'
    BY <1>22 DEF MarkIndexed, NothingAboveTip, BaseOK, NetworkOK, NetworkMatches
  <2>5. CASE pass.height < pass.tip
    <3>1. /\ pass' = [NoPass EXCEPT !.tip = pass.tip, !.height = pass.height + 1]
          /\ pc' = "hash"
      BY <1>22, <2>5 DEF MarkIndexed
    <3>2. pass' = [tip |-> pass.tip, height |-> pass.height + 1, block |-> None,
                   seed |-> None, base |-> None]
      BY <3>1
    <3>3. TypeOK'
      BY <1>22, <2>1, <2>3, <2>5, <3>1, <3>2 DEF MarkIndexed, TypeOK
    <3>4. PassOK'
      BY <1>22, <2>1, <2>2, <2>3, <2>5, <3>1, <3>2 DEF MarkIndexed, PassOK
    <3>5. SlotOK'
      BY <1>22, <2>2, <3>1, <3>2, RowsUntouched DEF MarkIndexed, SlotOK, HasRow
    <3> QED
      BY <1>22, <2>4, <3>3, <3>4, <3>5, RowsUntouched DEF MarkIndexed
  <2>6. CASE ~(pass.height < pass.tip)
    <3>1. TypeOK' /\ PassOK' /\ SlotOK'
      BY <1>22, <2>1, <2>6 DEF MarkIndexed, TypeOK, PassOK, SlotOK
    <3> QED
      BY <1>22, <2>4, <3>1, RowsUntouched DEF MarkIndexed
  <2> QED
    BY <2>5, <2>6
<1>23. CASE Wake
  <2>1. TypeOK' /\ PassOK'
    BY <1>23 DEF Wake, TypeOK, PassOK
  <2>2. NothingAboveTip' /\ SlotOK' /\ BaseOK' /\ NetworkOK'
    BY <1>23, RowsUntouched
    DEF Wake, TypeOK, PassOK, NothingAboveTip, SlotOK, BaseOK, NetworkOK,
        NetworkMatches, StoredSizes, HasRow
  <2> QED
    BY <1>23, <2>1, <2>2, RowsUntouched DEF Wake
<1>24. CASE PassFails
  <2>1. TypeOK' /\ PassOK'
    BY <1>24 DEF PassFails, TypeOK, PassOK
  <2>2. NothingAboveTip' /\ SlotOK' /\ BaseOK' /\ NetworkOK'
    BY <1>24, RowsUntouched
    DEF PassFails, TypeOK, PassOK, NothingAboveTip, SlotOK, BaseOK, NetworkOK,
        NetworkMatches, StoredSizes, HasRow
  <2> QED
    BY <1>24, <2>1, <2>2, RowsUntouched DEF PassFails
<1>25. CASE Crash
  <2>1. TypeOK' /\ PassOK'
    BY <1>25 DEF Crash, TypeOK, PassOK
  <2>2. NothingAboveTip' /\ SlotOK' /\ BaseOK' /\ NetworkOK'
    BY <1>25, RowsUntouched
    DEF Crash, TypeOK, PassOK, NothingAboveTip, SlotOK, BaseOK, NetworkOK,
        NetworkMatches, StoredSizes, HasRow
  <2> QED
    BY <1>25, <2>1, <2>2, RowsUntouched DEF Crash
<1>26. CASE NodeMoves
  <2>1. PICK b \in Block :
          /\ ChainName(b) = ChainName(best) \/ pc = "down"
          /\ best' = b
    BY <1>26 DEF NodeMoves, NodeMove
  <2>2. UNCHANGED <<rows, meta, pc, pass, misseeded>>
    BY <1>26 DEF NodeMoves
  <2>3. TypeOK'
    <3>1. seen' \subseteq Block
      BY <1>26 DEF NodeMoves, ChainBlocks, TypeOK
    <3> QED
      BY <2>1, <2>2, <3>1 DEF TypeOK
  <2>4. PassOK' /\ NetworkOK'
    BY <2>1, <2>2 DEF PassOK, NetworkOK, NetworkMatches
  <2>5. NothingAboveTip' /\ SlotOK' /\ BaseOK'
    BY <2>2, RowsUntouched DEF NothingAboveTip, SlotOK, BaseOK, StoredSizes, HasRow
  <2> QED
    BY <2>2, <2>3, <2>4, <2>5, RowsUntouched
<1>27. CASE UNCHANGED vars
  BY <1>27 DEF vars, TypeOK, PassOK, Interval, NothingAboveTip, SlotOK, BaseOK,
             NetworkOK, NetworkMatches, RowsInPlace, SizesAccumulate, MaxHeight,
             StoredSizes, HasRow
<1> QED
  BY <1>1, <1>2, <1>3, <1>4, <1>5, <1>6, <1>7, <1>8, <1>9, <1>10, <1>11,
     <1>12, <1>13, <1>14, <1>15, <1>16, <1>17, <1>18, <1>19, <1>20, <1>21,
     <1>22, <1>23, <1>24, <1>25, <1>26, <1>27
  DEF Next, IngestStep, Environment

THEOREM AlwaysIInv == Spec => []IInv
<1>1. Init => IInv
  BY InitIInv
<1>2. IInv /\ [Next]_vars => IInv'
  BY StepIInv
<1> QED
  BY <1>1, <1>2, PTL DEF Spec

(* Every variable always has its type, and the locals of a pass are there. *)
THEOREM TypeCorrect == Spec => []TypeOK
<1>1. IInv => TypeOK
  BY DEF IInv
<1> QED
  BY <1>1, AlwaysIInv, PTL

(* The stored heights never have a gap, for get_block_range to end at. *)
THEOREM StoreContiguous == Spec => []Contiguous
<1>1. IInv => Contiguous
  BY IntervalIsContiguous DEF IInv
<1> QED
  BY <1>1, AlwaysIInv, PTL

(* Rows are stored under the height of their block, and on a configured    *)
(* network they are blocks of that network: one check at start-up and one  *)
(* node are enough for the whole run.                                      *)
THEOREM StoreInPlace == Spec => []RowsInPlace
<1>1. IInv => RowsInPlace
  BY DEF IInv
<1> QED
  BY <1>1, AlwaysIInv, PTL

(* No row lies above the tip a pass works with once it has pruned. *)
THEOREM PassSeesNothingAboveTip == Spec => []NothingAboveTip
<1>1. IInv => NothingAboveTip
  BY DEF IInv
<1> QED
  BY <1>1, AlwaysIInv, PTL

(* Adjacent rows agree on the tree sizes, across passes and crashes. *)
THEOREM StoreSizesAccumulate == Spec => []SizesAccumulate
<1>1. IInv => SizesAccumulate
  BY DEF IInv
<1> QED
  BY <1>1, AlwaysIInv, PTL
-----------------------------------------------------------------------------
(* Ingest implements BlockCache. *)

LEMMA PutAppends ==
  ASSUME IInv, Put
  PROVE  Cache!Append
<1>1. /\ pass.height \in Nat
      /\ pass.height \in DOMAIN rows' \ DOMAIN rows
  <2>1. pass.height \in Nat
    BY HeightsFacts DEF Put, IInv, PassOK, BlockSteps
  <2>2. pass.height \in DOMAIN rows' /\ pass.height \notin DOMAIN rows
    BY <2>1, PutEffect
  <2> QED
    BY <2>1, <2>2
<1>2. Cache!Keeps
  BY PutEffect DEF Cache!Keeps
<1>3. ASSUME pass.height - 1 \in DOMAIN rows, ~IsZero(rows[pass.height - 1].sizes)
      PROVE  rows'[pass.height].sizes =
               SaturatingAdd(rows[pass.height - 1].sizes,
                             NewNotes[rows'[pass.height].block])
  BY <1>3, PutEffect DEF Put, IInv, BaseOK, StoredSizes, HasRow, PutRow
<1> QED
  BY <1>1, <1>2, <1>3, PutEffect
  DEF Cache!Append, Cache!IsZero, IsZero, Cache!SaturatingAdd, SaturatingAdd,
      Cache!Pools, Pools

LEMMA PruneRollsBack ==
  ASSUME IInv, Prune
  PROVE  Cache!Rollback
<1>1. pass.tip \in Nat /\ DOMAIN rows \subseteq Nat
  BY HeightsFacts DEF Prune, IInv, PassOK, TypeOK
<1> QED
  BY <1>1, PruneEffect DEF Cache!Rollback

LEMMA CacheStep == IInv /\ [Next]_vars => [Cache!Next]_rows
<1> SUFFICES ASSUME IInv, [Next]_vars, ~Put, ~Prune PROVE UNCHANGED rows
  BY PutAppends, PruneRollsBack DEF Cache!Next
<1> QED
  BY DEF Next, IngestStep, Environment, vars, Restart, Boot, BootFails, Poll,
         RecordTip, UpToDate, Plan, FetchHash, HeightGone, FetchRaw, RejectRaw,
         GenesisBase, StoredBase, NeedSeed, SeedTreestate, TreestateUnusable,
         SeedHash, SeedBlock, SeedFails, MarkIndexed, Wake, PassFails, Crash,
         NodeMoves

(* Whatever the node does and wherever a pass fails, the store only grows  *)
(* by one block at its top and only shrinks from its top.                  *)
THEOREM ImplementsBlockCache == Spec => RefinesBlockCache
<1>1. Init => Cache!Init
  BY InitIInv, IntervalIsContiguous
  DEF IInv, Cache!Init, Cache!Contiguous, Contiguous, HasRow
<1>2. IInv /\ [Next]_vars => [Cache!Next]_rows
  BY CacheStep
<1> QED
  BY <1>1, <1>2, AlwaysIInv, PTL DEF Spec, RefinesBlockCache, Cache!Spec

LEMMA RowsKept ==
  ASSUME IInv, [Next]_vars, NEW h \in DOMAIN rows \cap DOMAIN rows'
  PROVE  rows'[h] = rows[h]
  BY CacheStep DEF Cache!Next, Cache!Append, Cache!Keeps, Cache!Rollback

(* A stored block is never replaced in place. *)
THEOREM StoreNeverRewritten == Spec => NeverRewritten
<1>1. IInv /\ [Next]_vars =>
        [\A h \in DOMAIN rows \cap DOMAIN rows' : rows'[h] = rows[h]]_vars
  BY RowsKept
<1> QED
  BY <1>1, AlwaysIInv, PTL DEF Spec, NeverRewritten

(* indexed_tip is only ever set to the top of the store. *)
THEOREM IndexedTipIsTop == Spec => IndexedTipNamesTop
<1> DEFINE NamesTop == meta'["indexed_tip"] # meta["indexed_tip"] =>
                         MaxHeight' = meta'["indexed_tip"]
<1>1. IInv /\ [Next]_vars => [NamesTop]_vars
  <2> SUFFICES ASSUME IInv, [Next]_vars, meta'["indexed_tip"] # meta["indexed_tip"]
               PROVE  MaxHeight' = meta'["indexed_tip"]
    OBVIOUS
  <2>1. meta \in [MetaKeys -> Block \cup Heights \cup {None}]
    BY DEF IInv, TypeOK
  <2>2. MarkIndexed
    BY <2>1
    DEF Next, IngestStep, Environment, vars, SetMeta, MetaKeys, Restart, Boot,
        BootFails, Poll, RecordTip, Prune, UpToDate, Plan, FetchHash, HeightGone,
        FetchRaw, RejectRaw, GenesisBase, StoredBase, NeedSeed, SeedTreestate,
        TreestateUnusable, SeedHash, SeedBlock, SeedFails, Put, Wake, PassFails,
        Crash, NodeMoves
  <2> QED
    BY <2>1, <2>2, RowsUntouched DEF MarkIndexed, IInv, SlotOK, SetMeta, MetaKeys
<1> QED
  BY <1>1, AlwaysIInv, PTL DEF Spec, IndexedTipNamesTop
-----------------------------------------------------------------------------
(* The chain label. *)

(* Past bootstrap the label names the network of the node. *)
LabelOK == pc \notin {"down", "boot"} => meta["chain"] = ChainName(best)

LEMMA LabelStep ==
  ASSUME IInv, LabelOK, [Next]_vars
  PROVE  LabelOK'
<1>1. meta \in [MetaKeys -> Block \cup Heights \cup {None}]
  BY DEF IInv, TypeOK
<1>2. CASE Boot
  BY <1>1, <1>2 DEF Boot, LabelOK, SetMeta, MetaKeys, ChainName
<1>3. CASE RecordTip \/ MarkIndexed
  BY <1>1, <1>3 DEF RecordTip, MarkIndexed, LabelOK, SetMeta, MetaKeys, ChainName
<1>4. CASE NodeMoves
  BY <1>4 DEF NodeMoves, NodeMove, LabelOK
<1>5. CASE Restart \/ BootFails \/ Crash
  BY <1>5 DEF Restart, BootFails, Crash, LabelOK
<1>6. ASSUME ~Boot, ~RecordTip, ~MarkIndexed, ~NodeMoves, ~Restart, ~BootFails, ~Crash
      PROVE  LabelOK'
  <2>1. UNCHANGED <<best, meta>> /\ (pc' = pc \/ pc \notin {"down", "boot"})
    BY <1>6 DEF Next, IngestStep, Environment, vars, Poll, Prune, UpToDate, Plan,
                FetchHash, HeightGone, FetchRaw, RejectRaw, GenesisBase,
                StoredBase, NeedSeed, SeedTreestate, TreestateUnusable, SeedHash,
                SeedBlock, SeedFails, Put, Wake, PassFails
  <2> QED
    BY <2>1 DEF LabelOK
<1> QED
  BY <1>2, <1>3, <1>4, <1>5, <1>6

(* Only Put adds a row, and it adds the block in flight, which is of the   *)
(* network of the node.                                                    *)
LEMMA NewRowLabelled ==
  ASSUME IInv, LabelOK, [Next]_vars, NEW h \in DOMAIN rows' \ DOMAIN rows
  PROVE  ChainName(rows'[h].block) = meta["chain"]
<1>1. CASE Put
  <2>1. h = pass.height /\ rows'[h].block = pass.block
    BY <1>1, PutEffect DEF PutRow
  <2>2. ChainName(pass.block) = ChainName(best)
    BY <1>1 DEF Put, IInv, PassOK, BlockSteps
  <2> QED
    BY <1>1, <2>1, <2>2 DEF Put, LabelOK
<1>2. CASE Prune
  BY <1>2, PruneEffect
<1>3. CASE ~Put /\ ~Prune
  BY <1>3 DEF Next, IngestStep, Environment, vars, Restart, Boot, BootFails, Poll,
              RecordTip, UpToDate, Plan, FetchHash, HeightGone, FetchRaw,
              RejectRaw, GenesisBase, StoredBase, NeedSeed, SeedTreestate,
              TreestateUnusable, SeedHash, SeedBlock, SeedFails, MarkIndexed,
              Wake, PassFails, Crash, NodeMoves
<1> QED
  BY <1>1, <1>2, <1>3

(* Every row is stored under the label of its own network. *)
THEOREM RowsStoredUnderLabel == Spec => RowsMatchLabel
<1> DEFINE Labelled == \A h \in DOMAIN rows' \ DOMAIN rows :
                         ChainName(rows'[h].block) = meta["chain"]
<1>1. Init => LabelOK
  BY DEF Init, LabelOK
<1>2. IInv /\ LabelOK /\ [Next]_vars => LabelOK'
  BY LabelStep
<1>3. IInv /\ LabelOK /\ [Next]_vars => [Labelled]_vars
  BY NewRowLabelled
<1> QED
  BY <1>1, <1>2, <1>3, AlwaysIInv, PTL DEF Spec, RowsMatchLabel
-----------------------------------------------------------------------------
(* Which rows can be off the active chain. *)

(* The history has every block that is stored or in flight, and the active *)
(* chain.                                                                  *)
SeenOK == Held \subseteq seen /\ ChainBlocks(best) \subseteq seen

LEMMA InitSeen == Init => SeenOK
<1> SUFFICES ASSUME Init PROVE SeenOK
  OBVIOUS
<1>1. Held = {rows[h].block : h \in DOMAIN rows} /\ seen = ChainBlocks(best)
  BY DEF Init, Held, NoPass
<1>2. CASE rows = NoRows
  BY <1>1, <1>2 DEF NoRows, SeenOK
<1>3. CASE rows = PreS11Rows
  <2>1. best \in Block /\ Height(best) \in Nat
    BY HeightFacts DEF Init
  <2>2. \A h \in DOMAIN rows :
          h \in 0 .. Height(best) /\ rows[h].block = BlockAt(best, h)
    BY <1>3, <2>1, PreS11Assumption DEF PreS11Rows, PreS11
  <2> QED
    BY <1>1, <2>1, <2>2, BlockAtFacts DEF SeenOK, ChainBlocks
<1> QED
  BY <1>2, <1>3 DEF Init

LEMMA StepSeen == IInv /\ SeenOK /\ [Next]_vars => SeenOK'
<1> SUFFICES ASSUME IInv, SeenOK, [Next]_vars
             PROVE  SeenOK'
  OBVIOUS
<1>1. CASE Prune
  <2>1. pass.block = None /\ pass' = pass /\ best' = best /\ pass.tip \in Nat
    BY <1>1, HeightsFacts DEF Prune, IInv, PassOK, BlockSteps
  <2>2. seen' = {x \in seen : Height(x) <= pass.tip} \cup ChainBlocks(best)
    BY <1>1 DEF Prune, ForgetAbove
  <2>3. ASSUME NEW h \in DOMAIN rows' PROVE rows'[h].block \in seen'
    <3>1. h \in DOMAIN rows /\ rows'[h] = rows[h] /\ h <= pass.tip
      BY <1>1, <2>1, PruneEffect DEF Prune
    <3>2. Height(rows[h].block) = h /\ rows[h].block \in seen
      BY <3>1 DEF IInv, RowsInPlace, SeenOK, Held
    <3> QED
      BY <2>2, <3>1, <3>2
  <2> QED
    BY <2>1, <2>2, <2>3 DEF SeenOK, Held, ChainBlocks
<1>2. CASE FetchHash
  <2>1. best \in Block /\ pass.height \in 0 .. Height(best)
    BY <1>2, HeightFacts, HeightsFacts
    DEF FetchHash, IInv, TypeOK, PassOK, BlockSteps
  <2>2. BlockAt(best, pass.height) \in ChainBlocks(best)
    BY <2>1, BlockAtFacts DEF ChainBlocks
  <2>3. pass'.block = BlockAt(best, pass.height)
    BY <1>2 DEF FetchHash, IInv, TypeOK
  <2>4. Held' \subseteq Held \cup {BlockAt(best, pass.height)}
    BY <1>2, <2>3 DEF FetchHash, Held
  <2> QED
    BY <1>2, <2>2, <2>4 DEF FetchHash, SeenOK, ChainBlocks
<1>3. CASE Put
  <2>1. pass.block \in Block
    BY <1>3 DEF Put, IInv, PassOK, BlockSteps
  <2>2. pass.block \in Held
    BY <2>1, NoneAssumption DEF Held
  <2>3. Held' \subseteq Held
    BY <1>3, <2>2, PutEffect DEF Put, PutRow, Held
  <2> QED
    BY <1>3, <2>3 DEF Put, SeenOK, ChainBlocks
<1>4. CASE NodeMoves
  <2>1. PICK b \in Block : best' = b /\ seen' = seen \cup ChainBlocks(b)
    BY <1>4 DEF NodeMoves, NodeMove
  <2>2. Held' = Held
    BY <1>4 DEF NodeMoves, Held
  <2> QED
    BY <2>1, <2>2 DEF SeenOK, ChainBlocks
<1>5. CASE UNCHANGED <<best, rows, seen>> /\ pass'.block \in {pass.block, None}
  <2>1. Held' \subseteq Held
    BY <1>5 DEF Held
  <2> QED
    BY <1>5, <2>1 DEF SeenOK, ChainBlocks
<1>6. CASE ~Prune /\ ~FetchHash /\ ~Put /\ ~NodeMoves
  <2>1. UNCHANGED <<best, rows, seen>>
    BY <1>6
    DEF Next, IngestStep, Environment, vars, Restart, Boot, BootFails, Poll,
        RecordTip, UpToDate, Plan, HeightGone, FetchRaw, RejectRaw, GenesisBase,
        StoredBase, NeedSeed, SeedTreestate, TreestateUnusable, SeedHash,
        SeedBlock, SeedFails, MarkIndexed, Wake, PassFails, Crash
  <2>2. pass'.block \in {pass.block, None}
    <3>1. CASE pass' = pass \/ pass' = NoPass
      BY <3>1 DEF NoPass
    <3>2. CASE Poll
      BY <3>2 DEF Poll, NoPass
    <3>3. CASE Plan \/ GenesisBase \/ StoredBase
      BY <3>3 DEF Plan, GenesisBase, StoredBase, IInv, TypeOK
    <3>4. CASE SeedTreestate \/ SeedHash \/ SeedBlock \/ SeedFails
      BY <3>4 DEF SeedTreestate, SeedHash, SeedBlock, SeedFails, IInv, TypeOK
    <3>5. CASE MarkIndexed
      <4>1. CASE pass.height < pass.tip
        <5>1. pass' = [NoPass EXCEPT !.tip = pass.tip, !.height = pass.height + 1]
          BY <3>5, <4>1 DEF MarkIndexed
        <5> QED
          BY <5>1 DEF NoPass
      <4>2. CASE ~(pass.height < pass.tip)
        BY <3>5, <4>2 DEF MarkIndexed, EndPass, NoPass
      <4> QED
        BY <4>1, <4>2
    <3>6. CASE UNCHANGED vars
      BY <3>6 DEF vars
    <3>7. Restart \/ Boot \/ BootFails \/ RecordTip \/ FetchRaw \/ NeedSeed
            \/ TreestateUnusable \/ Wake => pass' = pass
      BY DEF Restart, Boot, BootFails, RecordTip, FetchRaw, NeedSeed,
             TreestateUnusable, Wake
    <3>8. UpToDate \/ HeightGone \/ RejectRaw \/ PassFails \/ Crash =>
            pass' = NoPass
      BY DEF UpToDate, HeightGone, RejectRaw, PassFails, Crash, EndPass
    <3> QED
      BY <1>6, <3>1, <3>2, <3>3, <3>4, <3>5, <3>6, <3>7, <3>8
      DEF Next, IngestStep, Environment
  <2> QED
    BY <1>5, <2>1, <2>2
<1> QED
  BY <1>1, <1>2, <1>3, <1>4, <1>5, <1>6

LEMMA SeenAgree == IInv /\ SeenOK => StaleOnlyWhereDisputed
<1> SUFFICES ASSUME IInv, SeenOK, NEW x \in Held, Height(x) <= Height(best),
                    ~Disputed(Height(x))
             PROVE  OnChain(x, best)
  BY DEF StaleOnlyWhereDisputed
<1> DEFINE y == BlockAt(best, Height(x))
<1>1. x \in seen /\ x \in Block /\ best \in Block
  BY DEF SeenOK, IInv, TypeOK
<1>2. Height(x) \in 0 .. Height(best)
  BY <1>1, HeightFacts
<1>3. Height(y) = Height(x) /\ OnChain(y, best) /\ y \in Block
  BY <1>1, <1>2, BlockAtFacts
<1>4. y \in seen
  BY <1>3 DEF SeenOK, ChainBlocks
<1>5. x = y
  BY <1>1, <1>3, <1>4 DEF Disputed
<1> QED
  BY <1>3, <1>5

(* A block that is stored or in flight is the active chain's unless the    *)
(* node has had another at its height since the last prune below it: the   *)
(* code stores only what it was given on an active chain, and its prune    *)
(* leaves no row of the heights it is about.                               *)
THEOREM StaleRowsAreDisputed == Spec => []StaleOnlyWhereDisputed
<1>1. Init => SeenOK
  BY InitSeen
<1>2. IInv /\ SeenOK /\ [Next]_vars => SeenOK'
  BY StepSeen
<1>3. IInv /\ SeenOK => StaleOnlyWhereDisputed
  BY SeenAgree
<1> QED
  BY <1>1, <1>2, <1>3, AlwaysIInv, PTL DEF Spec
-----------------------------------------------------------------------------
(* True tree sizes. *)

(* Both replies give the true sizes when every pool is in them: a pool     *)
(* whose size is 0 or missing falls back to a finalState that says the     *)
(* same.                                                                   *)
LEMMA RepliesExact ==
  ASSUME FullReports, NEW b \in Block
  PROVE  /\ TreeSizesFromTreestate(TreestateReply(b)) = TreeSize[b]
         /\ TreeSizesFromGetblock(TreesReply(b)) = TreeSize[b]
<1>1. TreeSize[b] \in [Pools -> 0 .. U32Max]
  BY TreeSizeAssumption DEF Sizes
<1>2. TreeSizesFromGetblock(TreesReply(b)) = TreeSize[b]
  BY <1>1 DEF TreeSizesFromGetblock, TreesReply, PoolJsonSize, FullReports
<1>3. \A p \in Pools :
        TreeSizesFromTreestate(TreestateReply(b))[p] = TreeSize[b][p]
  BY <1>1, ReplyAssumption
  DEF TreeSizesFromTreestate, TreestateReply, PoolJsonSize, FullReports
<1>4. TreeSizesFromTreestate(TreestateReply(b)) \in [Pools -> 0 .. U32Max]
  BY SizesFacts DEF Sizes
<1> QED
  BY <1>1, <1>2, <1>3, <1>4

(* The true sizes before a block plus its commitments are the true sizes   *)
(* after it: nothing saturates.                                            *)
LEMMA ExactSum ==
  ASSUME NEW b \in Block, NEW base \in Sizes,
         base = IF Height(b) = 0 THEN ZeroSizes ELSE TreeSize[PrevBlock(b)]
  PROVE  SaturatingAdd(base, NewNotes[b]) = TreeSize[b]
<1>1. TreeSize[b] \in [Pools -> 0 .. U32Max] /\ NewNotes[b] \in [Pools -> 0 .. U32Max]
  BY TreeSizeAssumption DEF Sizes
<1>2. \A p \in Pools : TreeSize[b][p] = base[p] + NewNotes[b][p]
  <2> SUFFICES ASSUME NEW p \in Pools PROVE TreeSize[b][p] = base[p] + NewNotes[b][p]
    OBVIOUS
  <2>1. TreeSize[b][p] = NewNotes[b][p] + IF Height(b) = 0
                                          THEN 0 ELSE TreeSize[PrevBlock(b)][p]
    BY TreeSizeAssumption
  <2>2. base[p] = IF Height(b) = 0 THEN 0 ELSE TreeSize[PrevBlock(b)][p]
    BY DEF ZeroSizes
  <2>3. base[p] \in Int /\ NewNotes[b][p] \in Int
    BY <1>1, U32Assumption DEF Sizes
  <2> QED
    BY <2>1, <2>2, <2>3
<1> QED
  BY <1>1, <1>2, U32Assumption DEF SaturatingAdd

(* A base that the row below does not give is the size of the parent. *)
SeedOK ==
  pc = "put" /\ ~misseeded =>
    /\ pass.height = 0 => pass.base = ZeroSizes
    /\ pass.height > 0 /\ IsZero(StoredSizes(pass.height - 1)) =>
         pass.base = TreeSize[PrevBlock(pass.block)]

(* Row h is as SizesExact asks. *)
ExactRow(h) ==
  \/ rows[h].sizes = TreeSize[rows[h].block]
  \/ h \in PreS11 /\ IsZero(rows[h].sizes)

LEMMA InitExact == Init => SeedOK /\ SizesExact
  BY DEF Init, SeedOK, SizesExact, NoRows, PreS11Rows, IsZero, ZeroSizes

LEMMA StepSeed ==
  ASSUME FullReports, IInv, SeedOK, [Next]_vars
  PROVE  SeedOK'
<1>1. CASE GenesisBase
  BY <1>1 DEF GenesisBase, SeedOK, IInv, TypeOK
<1>2. CASE StoredBase
  BY <1>2, SizesFacts DEF StoredBase, SeedOK, StoredSizes, HasRow, IInv, TypeOK
<1>3. CASE SeedTreestate
  <2> DEFINE seed == BlockAt(best, pass.height - 1)
  <2>1. best \in Block /\ pass.height - 1 \in 0 .. Height(best)
    BY <1>3, HeightFacts, HeightsFacts
    DEF SeedTreestate, IInv, TypeOK, PassOK, BlockSteps
  <2>2. seed \in Block
    BY <2>1, BlockAtFacts
  <2>3. pass'.base = TreeSize[seed] /\ pass'.block = pass.block
    BY <1>3, <2>2, RepliesExact DEF SeedTreestate, IInv, TypeOK
  <2>4. ~misseeded' => seed = PrevBlock(pass.block)
    BY <1>3 DEF SeedTreestate
  <2>5. pass'.height = pass.height /\ pass.height > 0
    BY <1>3 DEF SeedTreestate, IInv, TypeOK, PassOK
  <2>6. pass'.height # 0
    BY <2>5, HeightsFacts, <1>3 DEF SeedTreestate, IInv, PassOK, BlockSteps
  <2> QED
    BY <2>3, <2>4, <2>6 DEF SeedOK
<1>4. CASE SeedBlock
  <2>1. pass.seed \in Block
    BY <1>4 DEF SeedBlock, IInv, PassOK
  <2>2. pass'.base = TreeSize[pass.seed] /\ pass'.block = pass.block
    BY <1>4, <2>1, RepliesExact DEF SeedBlock, IInv, TypeOK
  <2>3. ~misseeded' => pass.seed = PrevBlock(pass.block)
    BY <1>4 DEF SeedBlock
  <2>4. pass'.height = pass.height /\ pass.height > 0
    BY <1>4 DEF SeedBlock, IInv, TypeOK, PassOK
  <2>5. pass'.height # 0
    BY <2>4, HeightsFacts, <1>4 DEF SeedBlock, IInv, PassOK, BlockSteps
  <2> QED
    BY <2>2, <2>3, <2>5 DEF SeedOK
<1>5. CASE SeedFails
  BY <1>5 DEF SeedFails, SeedOK
<1>6. CASE NodeMoves \/ UNCHANGED vars
  BY <1>6 DEF NodeMoves, vars, SeedOK, StoredSizes, HasRow
<1>7. pc' # "put" => SeedOK'
  BY DEF SeedOK
<1> QED
  BY <1>1, <1>2, <1>3, <1>4, <1>5, <1>6, <1>7
  DEF Next, IngestStep, Environment, EndPass, Restart, Boot, BootFails, Poll,
      RecordTip, Prune, UpToDate, Plan, FetchHash, HeightGone, FetchRaw,
      RejectRaw, NeedSeed, TreestateUnusable, SeedHash, Put, MarkIndexed, Wake,
      PassFails, Crash

LEMMA PutExact ==
  ASSUME IInv, SeedOK, SizesExact, Put, ~misseeded,
         NEW h \in DOMAIN rows', Linked(h)'
  PROVE  ExactRow(h)'
<1>1. /\ pass.block \in Block /\ pass.height \in Nat
      /\ Height(pass.block) = pass.height /\ pass.base \in Sizes
  BY HeightsFacts DEF Put, IInv, PassOK, BlockSteps
<1>2. \A k \in DOMAIN rows : k \in Nat /\ k < pass.height
  BY PutEffect
<1>3. ASSUME NEW k \in DOMAIN rows, k <= h PROVE Linked(k)
  BY <1>1, <1>2, <1>3, PutEffect DEF Linked, HasRow
<1>4. CASE h \in DOMAIN rows
  BY <1>2, <1>3, <1>4, PutEffect DEF SizesExact, ExactRow
<1>5. CASE h = pass.height
  <2>1. CASE pass.height = 0
    <3>1. pass.base = ZeroSizes
      BY <2>1 DEF SeedOK, Put
    <3>2. SaturatingAdd(pass.base, NewNotes[pass.block]) = TreeSize[pass.block]
      BY <1>1, <2>1, <3>1, ExactSum
    <3> QED
      BY <1>5, <3>2, PutEffect DEF PutRow, ExactRow
  <2>2. CASE pass.height > 0
    <3>1. pass.base = TreeSize[PrevBlock(pass.block)]
      <4>1. CASE IsZero(StoredSizes(pass.height - 1))
        BY <2>2, <4>1 DEF SeedOK, Put
      <4>2. CASE ~IsZero(StoredSizes(pass.height - 1))
        <5>1. pass.height - 1 \in DOMAIN rows
          BY <4>2 DEF StoredSizes, HasRow, IsZero, ZeroSizes
        <5>2. /\ pass.base = rows[pass.height - 1].sizes
              /\ ~IsZero(rows[pass.height - 1].sizes)
          BY <4>2, <5>1 DEF IInv, BaseOK, Put, StoredSizes, HasRow
        <5>3. PrevBlock(rows'[h].block) = rows'[h - 1].block
          BY <1>1, <1>5, <5>1, PutEffect DEF Linked, HasRow
        <5>4. PrevBlock(pass.block) = rows[pass.height - 1].block
          BY <1>5, <5>1, <5>3, PutEffect DEF PutRow
        <5>5. Linked(pass.height - 1)
          BY <1>1, <1>3, <1>5, <5>1
        <5> QED
          BY <5>1, <5>2, <5>4, <5>5 DEF SizesExact
      <4> QED
        BY <4>1, <4>2
    <3>2. SaturatingAdd(pass.base, NewNotes[pass.block]) = TreeSize[pass.block]
      BY <1>1, <2>2, <3>1, ExactSum
    <3> QED
      BY <1>5, <3>2, PutEffect DEF PutRow, ExactRow
  <2> QED
    BY <1>1, <2>1, <2>2
<1> QED
  BY <1>4, <1>5, PutEffect

LEMMA StepExact ==
  ASSUME IInv, SeedOK, SizesExact, [Next]_vars
  PROVE  SizesExact'
<1>1. CASE Put
  BY <1>1, PutExact DEF Put, SizesExact, ExactRow
<1>2. CASE Prune
  <2> SUFFICES ASSUME ~misseeded, NEW h \in DOMAIN rows', Linked(h)'
               PROVE  ExactRow(h)'
    BY <1>2 DEF Prune, SizesExact, ExactRow
  <2>1. h \in DOMAIN rows /\ pass.tip \in Nat /\ DOMAIN rows \subseteq Nat
    BY <1>2, PruneEffect, HeightsFacts DEF Prune, IInv, PassOK, TypeOK
  <2>2. Linked(h)
    BY <1>2, <2>1, PruneEffect DEF Linked, HasRow
  <2> QED
    BY <1>2, <2>1, <2>2, PruneEffect DEF SizesExact, ExactRow
<1>3. CASE UNCHANGED rows /\ (misseeded => misseeded')
  BY <1>3 DEF SizesExact, Linked, HasRow
<1>4. ~Put /\ ~Prune => UNCHANGED rows
  BY DEF Next, IngestStep, Environment, vars, Restart, Boot, BootFails, Poll,
         RecordTip, UpToDate, Plan, FetchHash, HeightGone, FetchRaw, RejectRaw,
         GenesisBase, StoredBase, NeedSeed, SeedTreestate, TreestateUnusable,
         SeedHash, SeedBlock, SeedFails, MarkIndexed, Wake, PassFails, Crash,
         NodeMoves
<1>5. misseeded => misseeded'
  BY DEF Next, IngestStep, Environment, vars, Restart, Boot, BootFails, Poll,
         RecordTip, Prune, UpToDate, Plan, FetchHash, HeightGone, FetchRaw,
         RejectRaw, GenesisBase, StoredBase, NeedSeed, SeedTreestate,
         TreestateUnusable, SeedHash, SeedBlock, SeedFails, Put, MarkIndexed,
         Wake, PassFails, Crash, NodeMoves
<1> QED
  BY <1>1, <1>2, <1>3, <1>4, <1>5

(* A row whose rows below it are its own chain carries the true tree sizes *)
(* after its block, unless a seed was lost or taken on another branch: no  *)
(* other interleaving, crash or reorganisation makes a size wrong.         *)
THEOREM LinkedSizesExact ==
  ASSUME FullReports
  PROVE  Spec => []SizesExact
<1>1. Init => SeedOK /\ SizesExact
  BY InitExact
<1>2. IInv /\ SeedOK /\ SizesExact /\ [Next]_vars =>
        SeedOK' /\ SizesExact'
  BY StepSeed, StepExact
<1> QED
  BY <1>1, <1>2, AlwaysIInv, PTL DEF Spec
=============================================================================
