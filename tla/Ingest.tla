------------------------------- MODULE Ingest -------------------------------
(***************************************************************************)
(* The tip-following ingest of src/ingest.rs: bootstrap, then passes of    *)
(* ingest_once that extend the store to the height the node reported at    *)
(* the start of the pass.  One task runs it, and it shares the node with   *)
(* the rest of the world: the node may move between any two of its calls.  *)
(* So each action is at most one JSON-RPC call or one SQL statement, with  *)
(* the local computation that follows it.                                  *)
(***************************************************************************)
EXTENDS ZebraNode, CompactStore

CONSTANTS
  StartHeight,     (* --start-height, 0 when not given                       *)
  Backfill,        (* --backfill                                             *)
  Expected,        (* --network as the genesis block it stands for, or None  *)
  Rejected,        (* blocks raw_block_to_compact refuses, or whose coinbase *)
                   (* height is not the height that was asked for            *)
  PreS11Lo,        (* an earlier version may have left a store of the rows   *)
  PreS11Hi         (* PreS11Lo .. PreS11Hi, none of them with tree sizes     *)

ASSUME ConfigAssumption == StartHeight \in Nat /\ Backfill \in Nat

ASSUME NoneAssumption == None \notin Block /\ None \notin Int

ASSUME PreS11Assumption == PreS11Lo \in Nat /\ PreS11Hi \in Nat

PreS11 == PreS11Lo .. PreS11Hi

VARIABLES
  pc,              (* the call the ingest task is about to make              *)
  pass,            (* the locals of the pass in progress                     *)
  seen,            (* history: the blocks the node has had on its active     *)
                   (* chain, less those a prune has dropped for good         *)
  misseeded        (* history: a seed was not the tree size of the parent of *)
                   (* the block it was asked for                             *)

vars == <<best, rows, meta, pc, pass, seen, misseeded>>

(* tip: getblockcount of this pass; height, block: the height being        *)
(* ingested and the hash of its block; seed: the block asked for sizes;    *)
(* base: the tree sizes before the block.                                  *)
NoPass ==
  [tip |-> None, height |-> None, block |-> None, seed |-> None, base |-> None]

(* The steps of ingest_height that a block in flight is in. *)
BlockSteps == {"raw", "prev", "treestate", "seedhash", "seedblock", "put", "mark"}

Steps == {"down", "boot", "poll", "record", "prune", "plan", "hash", "sleep",
          "failed"} \cup BlockSteps

NetworkMatches == Expected # None => ChainName(best) = Expected

(* The rows of a store left by a version without tree sizes. *)
PreS11Rows ==
  [h \in {g \in PreS11 : g <= Height(best)} |->
     [block |-> BlockAt(best, h), sizes |-> ZeroSizes]]

Init ==
  /\ best \in Block
  /\ NetworkMatches
  /\ rows \in {NoRows, PreS11Rows}
  /\ meta = NoMeta
  /\ pc = "boot"
  /\ pass = NoPass
  /\ seen = ChainBlocks(best)
  /\ misseeded = FALSE

(* The blocks the store holds, and with them the one in flight. *)
Held ==
  {rows[h].block : h \in DOMAIN rows} \cup
    IF pass.block = None THEN {} ELSE {pass.block}

(* What the node has had above the tip of a prune need not be remembered,  *)
(* its active chain excepted.                                              *)
ForgetAbove(tip) ==
  seen' = {x \in seen : Height(x) <= tip} \cup ChainBlocks(best)

EndPass ==
  /\ pc' = "sleep"
  /\ pass' = NoPass
-----------------------------------------------------------------------------
(* Start-up. *)

Restart ==
  /\ pc = "down"
  /\ pc' = "boot"
  /\ UNCHANGED <<best, rows, meta, pass, seen, misseeded>>

(* Mutant of Boot: the network of the node is not compared. *)
BootAnyNetwork ==
  /\ pc = "boot"
  /\ SetMeta("chain", ChainName(best))
  /\ pc' = "poll"
  /\ UNCHANGED <<best, rows, pass, seen, misseeded>>

(* Mutant of Boot: a label that is there is kept. *)
BootKeepsLabel ==
  /\ pc = "boot"
  /\ NetworkMatches
  /\ IF meta["chain"] = None THEN SetMeta("chain", ChainName(best)) ELSE UNCHANGED meta
  /\ pc' = "poll"
  /\ UNCHANGED <<best, rows, pass, seen, misseeded>>

(* bootstrap: the probe succeeds on the expected network. *)
Boot ==
  /\ pc = "boot"
  /\ NetworkMatches
  /\ SetMeta("chain", ChainName(best))
  /\ pc' = "poll"
  /\ UNCHANGED <<best, rows, pass, seen, misseeded>>

(* bootstrap: the probe fails, the network is not the expected one, or a   *)
(* label cannot be written, the chain or one after it.  main returns the   *)
(* error.                                                                  *)
BootFails ==
  /\ pc = "boot"
  /\ \/ UNCHANGED meta
     \/ NetworkMatches /\ SetMeta("chain", ChainName(best))
  /\ pc' = "down"
  /\ UNCHANGED <<best, rows, pass, seen, misseeded>>
-----------------------------------------------------------------------------
(* ingest_once up to its loop. *)

Poll ==
  /\ pc = "poll"
  /\ pass' = [NoPass EXCEPT !.tip = Height(best)]
  /\ pc' = "record"
  /\ UNCHANGED <<best, rows, meta, seen, misseeded>>

RecordTip ==
  /\ pc = "record"
  /\ SetMeta("node_tip", pass.tip)
  /\ pc' = "prune"
  /\ UNCHANGED <<best, rows, pass, seen, misseeded>>

(* Mutant of Prune: the store is kept to the backfill window as well. *)
PruneToWindow ==
  /\ pc = "prune"
  /\ rows' = Restrict(rows, {h \in DOMAIN rows : h \in pass.tip - Backfill .. pass.tip})
  /\ ForgetAbove(pass.tip)
  /\ pc' = "plan"
  /\ UNCHANGED <<best, meta, pass, misseeded>>

(* Mutant of Prune: a tip one below the store is taken for a late block.   *)
PruneDeepDrop ==
  /\ pc = "prune"
  /\ IF MaxHeight # None /\ MaxHeight > pass.tip + 1
     THEN PruneAbove(pass.tip)
     ELSE UNCHANGED rows
  /\ ForgetAbove(pass.tip)
  /\ pc' = "plan"
  /\ UNCHANGED <<best, meta, pass, misseeded>>

(* The rows above the reported tip go.  Rows at or below it are not looked *)
(* at, whatever branch they are of.                                        *)
Prune ==
  /\ pc = "prune"
  /\ IF MaxHeight # None /\ MaxHeight > pass.tip
     THEN PruneAbove(pass.tip)
     ELSE UNCHANGED rows
  /\ ForgetAbove(pass.tip)
  /\ pc' = "plan"
  /\ UNCHANGED <<best, meta, pass, misseeded>>

(* u64::saturating_sub *)
SaturatingSub(m, n) == IF n > m THEN 0 ELSE m - n

FirstHeight(tip) ==
  LET fromBackfill == SaturatingSub(tip, Backfill)
  IN  IF StartHeight > 0
      THEN Max({StartHeight, Min({fromBackfill, StartHeight})})
      ELSE fromBackfill

(* Mutant of NextHeight: the backfill window moves a store that lags.      *)
NextHeightInWindow(tip) ==
  IF MaxHeight # None THEN Max({MaxHeight + 1, FirstHeight(tip)}) ELSE FirstHeight(tip)

(* Mutant of NextHeight: the top of the store is ingested again.           *)
NextHeightAtTop(tip) == IF MaxHeight # None THEN MaxHeight ELSE FirstHeight(tip)

NextHeight(tip) == IF MaxHeight # None THEN MaxHeight + 1 ELSE FirstHeight(tip)

(* Mutant of UpToDate: a tip one above the store is not worth a pass. *)
UpToDateEarly ==
  /\ pc = "plan"
  /\ NextHeight(pass.tip) >= pass.tip
  /\ EndPass
  /\ UNCHANGED <<best, rows, meta, seen, misseeded>>

UpToDate ==
  /\ pc = "plan"
  /\ NextHeight(pass.tip) > pass.tip
  /\ EndPass
  /\ UNCHANGED <<best, rows, meta, seen, misseeded>>

Plan ==
  /\ pc = "plan"
  /\ NextHeight(pass.tip) <= pass.tip
  /\ pass' = [pass EXCEPT !.height = NextHeight(pass.tip)]
  /\ pc' = "hash"
  /\ UNCHANGED <<best, rows, meta, seen, misseeded>>
-----------------------------------------------------------------------------
(* ingest_height: get_raw_block is two calls, getblockhash and getblock.   *)

FetchHash ==
  /\ pc = "hash"
  /\ pass.height <= Height(best)
  /\ pass' = [pass EXCEPT !.block = BlockAt(best, pass.height)]
  /\ pc' = "raw"
  /\ UNCHANGED <<best, rows, meta, seen, misseeded>>

(* The node has meanwhile dropped below the height: getblockhash refuses   *)
(* it, and the pass ends with a warning.                                   *)
HeightGone ==
  /\ pc = "hash"
  /\ pass.height > Height(best)
  /\ EndPass
  /\ UNCHANGED <<best, rows, meta, seen, misseeded>>

(* The raw block by its hash, of the active chain or not; it parses. *)
FetchRaw ==
  /\ pc = "raw"
  /\ pass.block \notin Rejected
  /\ pc' = "prev"
  /\ UNCHANGED <<best, rows, meta, pass, seen, misseeded>>

RejectRaw ==
  /\ pc = "raw"
  /\ pass.block \in Rejected
  /\ EndPass
  /\ UNCHANGED <<best, rows, meta, seen, misseeded>>
-----------------------------------------------------------------------------
(* tree_sizes_after_block: the sizes before the block, from the row below  *)
(* it if that row has any, else from the node.                             *)

(* Mutant of StoredSizes: sizes that are 0 in some pool are not believed. *)
StoredSizesIfWhole(h) ==
  IF HasRow(h) /\ (\A p \in Pools : rows[h].sizes[p] # 0)
  THEN rows[h].sizes
  ELSE ZeroSizes

StoredSizes(h) == IF HasRow(h) THEN rows[h].sizes ELSE ZeroSizes

GenesisBase ==
  /\ pc = "prev"
  /\ pass.height = 0
  /\ pass' = [pass EXCEPT !.base = ZeroSizes]
  /\ pc' = "put"
  /\ UNCHANGED <<best, rows, meta, seen, misseeded>>

StoredBase ==
  /\ pc = "prev"
  /\ pass.height > 0
  /\ ~IsZero(StoredSizes(pass.height - 1))
  /\ pass' = [pass EXCEPT !.base = StoredSizes(pass.height - 1)]
  /\ pc' = "put"
  /\ UNCHANGED <<best, rows, meta, seen, misseeded>>

NeedSeed ==
  /\ pc = "prev"
  /\ pass.height > 0
  /\ IsZero(StoredSizes(pass.height - 1))
  /\ pc' = "treestate"
  /\ UNCHANGED <<best, rows, meta, pass, seen, misseeded>>

SeedTreestate ==
  /\ pc = "treestate"
  /\ pass.height - 1 <= Height(best)
  /\ LET seed  == BlockAt(best, pass.height - 1)
         sizes == TreeSizesFromTreestate(TreestateReply(seed))
     IN  /\ ~IsZero(sizes)
         /\ pass' = [pass EXCEPT !.base = sizes]
         /\ misseeded' = (misseeded \/ seed # PrevBlock(pass.block))
  /\ pc' = "put"
  /\ UNCHANGED <<best, rows, meta, seen>>

(* z_gettreestate fails, or what it says is all 0. *)
TreestateUnusable ==
  /\ pc = "treestate"
  /\ pc' = "seedhash"
  /\ UNCHANGED <<best, rows, meta, pass, seen, misseeded>>

SeedHash ==
  /\ pc = "seedhash"
  /\ pass.height - 1 <= Height(best)
  /\ pass' = [pass EXCEPT !.seed = BlockAt(best, pass.height - 1)]
  /\ pc' = "seedblock"
  /\ UNCHANGED <<best, rows, meta, seen, misseeded>>

(* Sizes that are all 0 are not told apart from the default. *)
SeedBlock ==
  /\ pc = "seedblock"
  /\ pass' = [pass EXCEPT !.base = TreeSizesFromGetblock(TreesReply(pass.seed)),
                          !.seed = None]
  /\ misseeded' = (misseeded \/ pass.seed # PrevBlock(pass.block))
  /\ pc' = "put"
  /\ UNCHANGED <<best, rows, meta, seen>>

(* The last calls fail as well: the error is dropped and 0 is the seed. *)
SeedFails ==
  /\ pc \in {"seedhash", "seedblock"}
  /\ pass' = [pass EXCEPT !.base = ZeroSizes, !.seed = None]
  /\ misseeded' = TRUE
  /\ pc' = "put"
  /\ UNCHANGED <<best, rows, meta, seen>>
-----------------------------------------------------------------------------
(* The end of ingest_height: two statements, and on to the next height.    *)

Put ==
  /\ pc = "put"
  /\ PutCompactBlock(pass.height,
       [block |-> pass.block,
        sizes |-> SaturatingAdd(pass.base, NewNotes[pass.block])])
  /\ pc' = "mark"
  /\ UNCHANGED <<best, meta, pass, seen, misseeded>>

(* Mutant of MarkIndexed: the label is set to the goal of the pass. *)
MarkTip ==
  /\ pc = "mark"
  /\ SetMeta("indexed_tip", pass.tip)
  /\ IF pass.height < pass.tip
     THEN /\ pass' = [NoPass EXCEPT !.tip = pass.tip, !.height = pass.height + 1]
          /\ pc' = "hash"
     ELSE EndPass
  /\ UNCHANGED <<best, rows, seen, misseeded>>

(* Mutant of MarkIndexed: the loop runs one height too far. *)
MarkPastTip ==
  /\ pc = "mark"
  /\ SetMeta("indexed_tip", pass.height)
  /\ IF pass.height <= pass.tip
     THEN /\ pass' = [NoPass EXCEPT !.tip = pass.tip, !.height = pass.height + 1]
          /\ pc' = "hash"
     ELSE EndPass
  /\ UNCHANGED <<best, rows, seen, misseeded>>

MarkIndexed ==
  /\ pc = "mark"
  /\ SetMeta("indexed_tip", pass.height)
  /\ IF pass.height < pass.tip
     THEN /\ pass' = [NoPass EXCEPT !.tip = pass.tip, !.height = pass.height + 1]
          /\ pc' = "hash"
     ELSE EndPass
  /\ UNCHANGED <<best, rows, seen, misseeded>>

Wake ==
  /\ pc \in {"sleep", "failed"}
  /\ pc' = "poll"
  /\ UNCHANGED <<best, rows, meta, pass, seen, misseeded>>
-----------------------------------------------------------------------------
(* What may go wrong: a JSON-RPC call or a SQL statement whose error the   *)
(* pass returns or breaks on; the process stops; the node moves.  The node *)
(* is only exchanged for one of another network while Zeaking is down.     *)

PassFails ==
  /\ pc \in {"poll", "record", "prune", "plan", "hash", "raw", "prev", "put",
             "mark"}
  /\ pc' = "failed"
  /\ pass' = NoPass
  /\ UNCHANGED <<best, rows, meta, seen, misseeded>>

Crash ==
  /\ pc # "down"
  /\ pc' = "down"
  /\ pass' = NoPass
  /\ UNCHANGED <<best, rows, meta, seen, misseeded>>

NodeMoves ==
  /\ \E b \in Block :
       /\ ChainName(b) = ChainName(best) \/ pc = "down"
       /\ NodeMove(b)
       /\ seen' = seen \cup ChainBlocks(b)
  /\ UNCHANGED <<rows, meta, pc, pass, misseeded>>

IngestStep ==
  \/ Poll \/ RecordTip \/ Prune \/ UpToDate \/ Plan
  \/ FetchHash \/ HeightGone \/ FetchRaw \/ RejectRaw
  \/ GenesisBase \/ StoredBase \/ NeedSeed
  \/ SeedTreestate \/ TreestateUnusable \/ SeedHash \/ SeedBlock \/ SeedFails
  \/ Put \/ MarkIndexed \/ Wake

Environment == BootFails \/ PassFails \/ Crash \/ NodeMoves

Next == IngestStep \/ Boot \/ Restart \/ Environment

Spec == Init /\ [][Next]_vars

(* The ingest task is never starved: tokio runs it, the 60 s timeout of    *)
(* the HTTP client bounds every call and the sleep between passes ends.    *)
FairSpec == Spec /\ WF_vars(IngestStep) /\ WF_vars(Boot)
-----------------------------------------------------------------------------
(* Properties. *)

Row == [block : Block, sizes : Sizes]

(* Every variable has its type; the locals of a pass are there exactly     *)
(* while the step they belong to needs them.                               *)
TypeOK ==
  /\ best \in Block
  /\ DOMAIN rows \subseteq Heights
  /\ \A h \in DOMAIN rows : rows[h] \in Row
  /\ meta \in [MetaKeys -> Block \cup Heights \cup {None}]
  /\ pc \in Steps
  /\ pass \in [tip : Heights \cup {None}, height : Heights \cup {None},
               block : Block \cup {None}, seed : Block \cup {None},
               base : Sizes \cup {None}]
  /\ seen \subseteq Block
  /\ misseeded \in BOOLEAN

(* The stored heights have no gap, whatever happened to the passes that    *)
(* stored them: get_block_range (src/serve.rs) ends its stream with        *)
(* NOT_FOUND at the first missing height.                                  *)
Contiguous ==
  \A h, k \in DOMAIN rows : \A i \in h .. k : HasRow(i)

(* A row is stored under the height its block has on its own chain, and    *)
(* the rows of a configured network are blocks of that network, although   *)
(* the network is compared at start-up only.                               *)
RowsInPlace ==
  \A h \in DOMAIN rows :
    /\ Height(rows[h].block) = h
    /\ Expected # None => ChainName(rows[h].block) = Expected

(* From the prune to the end of the pass no row lies above the tip that    *)
(* the pass works with.                                                    *)
NothingAboveTip ==
  pc \in {"plan", "hash"} \cup BlockSteps =>
    \A h \in DOMAIN rows : h <= pass.tip

(* Two adjacent rows agree on the tree sizes, also when one was stored in  *)
(* another pass or before a crash: over a row that knows its sizes, the    *)
(* next one adds its own commitments.                                      *)
SizesAccumulate ==
  \A h \in DOMAIN rows :
    HasRow(h - 1) /\ ~IsZero(rows[h - 1].sizes) =>
      rows[h].sizes =
        SaturatingAdd(rows[h - 1].sizes, NewNotes[rows[h].block])

(* The node has had two blocks at a height since the last prune below it.  *)
Disputed(h) == \E x, y \in seen : Height(x) = h /\ Height(y) = h /\ x # y

(* A reorganisation that ingest does not notice spoils no height below its *)
(* fork, and one it notices leaves nothing behind: a stored block, or the  *)
(* one in flight, is the active chain's unless the node has had another at *)
(* its height since the last prune below that height.                      *)
StaleOnlyWhereDisputed ==
  \A x \in Held :
    Height(x) <= Height(best) /\ ~Disputed(Height(x)) => OnChain(x, best)

(* Row h and the rows below it are one chain. *)
Linked(h) ==
  \A k \in DOMAIN rows :
    k <= h /\ HasRow(k - 1) => PrevBlock(rows[k].block) = rows[k - 1].block

(* If no seed was lost or taken from another branch, a row that heads one  *)
(* chain carries the true sizes after its block.  A row an earlier version *)
(* stored may still have none.                                             *)
SizesExact ==
  ~misseeded =>
    \A h \in DOMAIN rows :
      Linked(h) =>
        \/ rows[h].sizes = TreeSize[rows[h].block]
        \/ h \in PreS11 /\ IsZero(rows[h].sizes)

(* A stored block is never replaced by another or given other sizes while  *)
(* its row exists: the upsert never meets an existing height.              *)
NeverRewritten ==
  [][\A h \in DOMAIN rows \cap DOMAIN rows' : rows'[h] = rows[h]]_vars

(* indexed_tip is only ever set to the top of the store.                   *)
IndexedTipNamesTop ==
  [][meta'["indexed_tip"] # meta["indexed_tip"] =>
       MaxHeight' = meta'["indexed_tip"]]_vars

(* Whatever network a restarted Zeaking finds its node on, configured or   *)
(* not, every row it stores is of the network the stored chain label names *)
(* at that moment, although the label was written at start-up and blocks   *)
(* are never compared with it.  (Rows of a former network may lie below.)  *)
RowsMatchLabel ==
  [][\A h \in DOMAIN rows' \ DOMAIN rows :
       ChainName(rows'[h].block) = meta["chain"]]_vars

Cache ==
  INSTANCE BlockCache WITH rows <- rows, Block <- Block, NewNotes <- NewNotes,
                           U32Max <- U32Max

(* The store keeps the promise of BlockCache. *)
RefinesBlockCache == Cache!Spec

(* There is nothing left to store of the chain that ends in b: the store   *)
(* reaches b, or it is stuck below a block it cannot parse, or it is empty *)
(* and not to start before a later height.                                 *)
CaughtUp(b) ==
  LET next == NextHeight(Height(b))
  IN  \/ MaxHeight = Height(b)
      \/ next <= Height(b) /\ BlockAt(b, next) \in Rejected
      \/ DOMAIN rows = {} /\ StartHeight > Height(b)

(* Once the node stays on a block and Zeaking runs without errors, the     *)
(* store ends up, and stays, at the node's height.                         *)
CatchesUp ==
  \A b \in Block :
    <>[](best = b /\ pc \notin {"down", "failed"}) => <>[]CaughtUp(b)
-----------------------------------------------------------------------------
(* Three readings of the documentation that the code does not meet.        *)

(* src/tree_sizes.rs:3: compact blocks carry the tree size after the       *)
(* block.  Every row does, except those of an earlier version.             *)
CarriesSizeAfterBlock ==
  \A h \in DOMAIN rows :
    \/ rows[h].sizes = TreeSize[rows[h].block]
    \/ h \in PreS11 /\ IsZero(rows[h].sizes)

(* The same where every seed was the one asked for, so that only rows on   *)
(* top of a row of another branch are left to be wrong.                    *)
CarriesSizeWhenSeeded == ~misseeded => CarriesSizeAfterBlock

(* src/config.rs:48: when the store is empty, backfill at most this many   *)
(* blocks from the tip.                                                    *)
BackfillIsBounded ==
  [][\A h \in DOMAIN rows' :
       DOMAIN rows = {} => h >= pass.tip - Backfill]_vars
=============================================================================
