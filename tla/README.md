# Zeaking: specifications, model checking and proofs

Zeaking follows a Zebrad or Zakura node over JSON-RPC, turns its blocks into
lightwalletd compact blocks, keeps them in SQLite and serves them to wallets
over gRPC. This directory holds TLA+ modules translated from its source, TLC
configurations that check them on small instances, and TLAPS proofs of the main
results for every instance. Paths below are relative to the repository root.

## 1. Inventory

| Component | State | Operations | Talks to |
|---|---|---|---|
| `src/config.rs` | flags, fixed at start | parse, `validate`, `effective_rpc_url` | read by `main` |
| `src/main.rs` | the process; `NodeInfo` behind a lock | start, bootstrap, spawn ingest, probe every 15 s, serve | everything |
| `src/rpc.rs` | URL, HTTP client (60 s timeout), credentials read once | `getblockcount`, `getblockhash`, `getblock`, `z_gettreestate`, `z_getsubtreesbyindex`, probe, send | the node |
| `src/ingest.rs` | locals of a pass: tip, height, block, sizes | `bootstrap`, `run_ingest_loop`, `ingest_once`, `ingest_height` | rpc, store, compact, tree_sizes |
| `src/store.rs` | tables `compact_blocks` and `meta` | put, get, max, prune above, set label | SQLite, one mutex |
| `src/tree_sizes.rs` | none | sizes after a block: row below, else node, else 0 | rpc, store |
| `src/compact.rs` | none | raw block to compact block, protobuf | called by ingest and serve |
| `src/serve.rs` | one task and one bounded channel per range request | the CompactTxStreamer calls | store, rpc, `NodeInfo` |
| `src/treestate.rs` | none | tree state and subtree roots from node JSON | rpc |
| `src/parity.rs` | none | compare two compact blocks | called by the parity probe |
| `examples/lwd_parity_probe.rs` | locals of one spot check | compare the last blocks of a reference with node and engine | reference streamer, node, Zeaking, parity |
| proto, build.rs, error, lib, the other example, scripts | none | generated code, wording, client programs | |

What interacts: one ingest task writes the store; any number of request
handlers and range tasks read it; each read or write is one SQL statement under
a mutex and nothing makes two of them atomic. The ingest task and the handlers
ask the node in separate calls, and the node reorganises, grows or loses blocks
between any two. The process may stop anywhere; SQLite keeps what was
committed.

What is hard, and what makes each part correct:

- **Ingest and store.** The only sign of a reorganisation the code looks for is
  a tip below the store. Whatever happens between two calls, the stored heights
  must be without a gap, a stored block must never be replaced in place, a row
  must hold a block of its height and network, and the next pass must be able
  to go on from whatever a crash or an error left.
- **Tree sizes.** A row's sizes are built on the row below or on what the node
  says of the parent *height*. All-zero stands for "not known". Adjacent rows
  must agree, and sizes must be true where nothing was lost on the way.
- **Range stream.** Row-by-row reads, a bounded channel, a client that may
  stop. The client must get consecutive rows, no false "not indexed", and the
  task must end.
- **Parsing a block.** A reply may be cut anywhere, a height may be pushed in
  four forms, and a transaction kept or not decides the tree sizes above it.
- **Parity.** Rows are matched first come, first served; neither their order
  nor rows the other side leaves out may decide the verdict.
- **Process and credentials.** Four clients are made at four moments, each with
  what the environment and the cookie files say at that moment, beside a node
  that may restart at any of them. A process that is up must be accepted by the
  node it started with; `NodeInfo` may be of two nodes only where the credentials
  are good for both, and must come to be that of the running one.
- **Sending a transaction.** The one call that changes something elsewhere. It
  may be given up after the node took it, and be retried; what the wallet is
  told must be true of that very request.
- **Parity probe.** Three chains move while it walks a window; its exit code is
  what a script goes by.
- **Unary calls.** Answers put together from the store, the node and
  `NodeInfo`, each read at its own moment.

The hazards, each at its line and with the properties that cover it, are the
`hazards` of `PROJECT.json`.

## 2. Modules

| Module | What it is |
|---|---|
| `TreeSizes` | size vectors, `is_zero`, saturating u32 addition, reading sizes out of the two JSON replies |
| `ZebraNode` | the node, external: a constant forest of blocks, the best block, replies |
| `CompactStore` | the two tables and one operator per SQL statement |
| `BlockCache` | the abstract specification of the store: append on top, roll back from the top, never rewrite, sizes accumulate |
| `Ingest` | bootstrap and the ingest task beside a moving node, with failures and crashes; extends the three above |
| `RangeStream` | `get_block_range` beside `Ingest` |
| `BlockFeed` | the abstract specification of a range stream: each height looked up once and in order, the first one without a block ends it, only a whole range ends well |
| `Serve` | the unary calls and the `NodeInfo` refresh beside `Ingest` |
| `CompactCodec` | `raw_block_to_compact` on what arrives of a serialised block |
| `Parity` | `compare_compact` on a pair of blocks |
| `Process` | `main` from the command line to the listener, credentials of its clients, `probe_node` and the refresh task, beside a node that restarts |
| `SendTransaction` | `send_transaction` and `RpcClient::call` over a lossy way to the node; extends `Process` |
| `ParityProbe` | the spot check of `examples/lwd_parity_probe.rs` beside three moving chains; extends `ZebraNode` |
| `IngestProofs` | theorems about `Ingest` |
| `RangeStreamProofs`, `ServeProofs` | theorems about `RangeStream` and `Serve`; both extend `IngestProofs` |
| `ProcessProofs` | theorems about `Process` and `SendTransaction` |
| `ParityProofs`, `ParityProbeProofs` | theorems about `Parity` and `ParityProbe` |
| `CompactCodecProofs` | theorems about `CompactCodec` |
| `SequenceFacts` | lemmas about sequences, and the least number of a set, that the proofs cite |
| `MCIngest`, `MCRangeStream`, `MCServe`, `MCCompactCodec`, `MCParity`, `MCProcess`, `MCSendTransaction`, `MCParityProbe` | constants for TLC |

Operators named in a comment as a *mutant* of another are small changes of it,
the kind of bug the property is there to catch; each is used to show that a
property of a run fails when the code is wrong. They are part of no
specification.

### How state and actions correspond to the code

`best` is the node's tip; `Chain[b]` the blocks from genesis to `b`, so a block
is its own hash and `Len(Chain[b]) - 1` its height. `rows` is `compact_blocks`
as a function from height to `[block, sizes]`; `meta` the labels. `pc` is the
next call the ingest task makes and `pass` its locals.

| Code | Actions |
|---|---|
| `bootstrap`, `main` | `Restart`, `Boot`, `BootFails` |
| `ingest_once` before its loop | `Poll`, `RecordTip`, `Prune`, `UpToDate`, `Plan` |
| `get_raw_block`, `raw_block_to_compact` | `FetchHash`, `HeightGone`, `FetchRaw`, `RejectRaw` |
| `tree_sizes_after_block` | `GenesisBase`, `StoredBase`, `NeedSeed` |
| `seed_sizes_at_height` | `SeedTreestate`, `TreestateUnusable`, `SeedHash`, `SeedBlock`, `SeedFails` |
| end of `ingest_height`, loop, sleep | `Put`, `MarkIndexed`, `Wake` |
| an error returned or broken on | `PassFails` |
| outside the code | `NodeMoves`, `Crash` |

One action is at most one JSON-RPC call or one SQL statement with the local
computation after it. Two steps of the code are joined where nothing lies
between them that another actor could see: `max_height` and the prune (the
ingest task is the only writer), and `decode` with the read it follows.

`seen` and `misseeded` are history. `seen` is about the node alone: the blocks it
has had on its active chain; a prune forgets those above its tip that are not on
the active chain any more. `misseeded` is set when a seed was not the size of the
parent of the block it was asked for. Guards never read them.

`RangeStream`: `OpenStream` is the handler; `ReadRow`, `ReadFails`, `SendItem`,
`SendFails` the spawned task; `Deliver`, `EndStream`, `CancelStream` tonic and
the client; `ForgetStream` frees the slot for the next request. It implements
`BlockFeed` under the mapping `Feed`: what was looked up (`taken`) is what the
client has, what the channel holds and what is in the task's hand, as long as
the response is open; once it has ended, only what the client has. A request
whose end lies below its start is answered with `INVALID_ARGUMENT`
(`src/serve.rs:94`) before there is a task or a channel; as that leaves no state,
it is the guard of `OpenStream` and no action. `Serve`: one action per read of the store, the node or `NodeInfo`, in the handler's order;
`Page` is `z_getsubtreesbyindex` with its optional limit. One request is in
flight at a time: handlers only read, so two of them cannot affect one another.

`Process`: `pc` is what `main` does next, `auth` the credentials of each client,
`info` the runs of the node that answered the two calls of `probe_node`.

| Code | Actions |
|---|---|
| `validate`, `effective_rpc_url` | `Launch` |
| `RpcClient::new`, `resolve_rpc_auth` | `MakeClient` for boot, serve, ingest, meta |
| `IndexerStore::open`, `serve` | `OpenStore`, `Bind` |
| `probe_node` | `ProbeChain`, then `BootProbed` or `Refreshed` |
| any `?` of `main`, a stop | `Exit` |
| outside the code | `NodeStarts`, `NodeListens`, `NodeStops` |

A text credentials may come from is a model value or a pair, `None` when absent;
`Blank` stands for a half that is empty or all blank, `NoColon` for a text that
is no pair. A cookie carries the number of the run of the node that wrote it.
What a run of the node takes is `Accepts`: its own cookie; besides it the pairs
fixed in its configuration (`Fixed`), which several runs may share; anything, no
credentials included, if it runs without authentication (`Open`), and then it
writes no cookie file.
`bootstrap` is split with `Ingest`: here who answers it, there what it compares
and stores.

`SendTransaction` adds the calls in flight: `Submit` (with the early return for
an empty transaction), `Receive` (the checks of `RpcClient::call` on a response,
in their order), `TransportFails` (broken connection or timeout) and `Cancel`;
`NodeHandles`, `ReplyDamaged` and `Lost` are the node and the network.

`ParityProbe` has one action per gRPC or JSON-RPC call of the example
(`ReadTip`, `FetchReference`, `FetchBlock`, `FetchSizes`, `FetchVerbose`,
`FetchEngine`, with `NoTreestate`, `NoVerbose` and `Abort` for the failures) and
`Summary`; `ViewsMove` moves one of the three chains. `get_raw_block` is one
step here: its second call asks for the hash the first one gave.

`CompactCodec` reads bytes up to the transaction count and one item per
transaction after it: `ReadHeader`, `ReadCount`, `ReadTx`, `Finish` and for each
the early return of the code. What a node serialises, and the cuts of it, are
external definitions next to it. `Parity` goes through `compare_compact` in its
order: `CompareHeader`, one `MatchRow` or `NoMatch` per row of ours, `Leftover`,
`CompareSizes`.

## 3. What the runs check

| Run | Instance | What it shows |
|---|---|---|
| `ingest_forked` | tree `g-a1-a2-a3`, `g-b1-b2`, second genesis `t`; `--network` set; backfill 1; u32 up to 4; optional store of an earlier version at 0..1 | all safety and action properties of `Ingest` and that it implements `BlockCache` |
| `ingest_live` | same tree, no network set, `a3` cannot be parsed | `CatchesUp`, `RowsMatchLabel` |
| `sizes_lost_seed` | `g-a1-a2-a3` | finding 1 |
| `sizes_stale_row` | forked tree | finding 2 |
| `backfill_ignored` | `g-a1-a2-a3`, start height 1, backfill 1 | finding 3 |
| `range_stream` | `g-a1`, `g-b1`, requests 0..1 and 0..2, channel of 1 | `RefinesBlockFeed`, `StreamIsSnapshot`, `StoredHeightsServed`, `StreamTaskEnds` |
| `serve` | `g-a1-a2`, `g-b1`, network `g`; every call, subtree requests with and without start and limit, of a pool that does not exist too | `LatestNamesABlock`, `TreeStateOfStoredBlock`, `RootsNameTheirBlock` |
| `compact_codec` | bytes of 8 values; 8 heights around each form of push; up to two transactions after the coinbase; every cut | `OnlyWholeBlocks`, `HeightSurvives`, `KeepsShielded` |
| `parity` | ours of up to 2 rows, reference of up to 3, two hashes | `NoFalseAgreement`, `NoFalseIssue` |
| `process` | three runs of the node, Zebra then Zakura twice, the last without authentication; half a user and password, a malformed inline cookie, a blank path; six sets of flags | `AcceptedWhileNodeRuns`, `CookieFound`, `InfoOfTwoNodes`, `InfoRefreshes` |
| `send_transaction` | two calls; a valid, an invalid and the empty transaction; a node that restarts twice; a user and password, which the first and the last run take and the one between them does not | `OkMeansTaken`, `RefusalIsFinal`, `EveryCallAnswered` |
| `parity_probe` | `g-a1-a2`, `g-b1`; an engine with a row that lost its seed and one without sizes; a node that does not report the newest pool; windows 0, 2 and 5; all four configurations | `SuccessMeansParity`, `FailureMeansDifference` |

The properties, in words:

- `Contiguous`, `RowsInPlace`, `NothingAboveTip`, `NeverRewritten`: section 1.
- `SizesAccumulate`: over a row with sizes, the next row adds its own
  commitments, also across passes, crashes and branches.
- `StaleOnlyWhereDisputed`: a block that is stored or in flight is the active
  chain's unless the node has had two blocks at its height since the last prune
  below it. So a reorganisation that ingest does not notice (finding 2) spoils
  no row below its fork, and one it notices leaves no row behind, whatever calls,
  failures and crashes lie between the node's move and the prune.
- `SizesExact`: with no seed lost or taken from another branch, rows that head
  one chain carry the true sizes. Rows of an earlier version may still be 0.
- `IndexedTipNamesTop`: the label is only ever set to the top of the store (it
  may lag behind: a crash between put and label, or a prune).
- `RowsMatchLabel`: whatever network a restarted Zeaking finds its node on, a
  row is stored only while the chain label names the network of that row.
- `CatchesUp`: see section 4.
- `RefinesBlockFeed`: the stream keeps the promise of `BlockFeed` whatever is
  pruned and stored meanwhile. In particular a response without an error has a
  block for every height of the range, and nothing follows an error, although
  the task goes on reading and sending after one.
- `StreamIsSnapshot`: while no row went away, the items are the stored rows at
  consecutive heights. Rows are not claimed to be of one branch (finding 2).
- `StoredHeightsServed`: while no row went away, what was stored at the request
  is never reported as not indexed.
- `LatestNamesABlock`: height and hash of the latest block agree; the hash is
  empty only if a prune came between the two reads.
- `TreeStateOfStoredBlock`: the tree state for a stored height is that of the
  stored block, unless the node has had two blocks at that height since the last
  prune below it. Then it may be of the other block.
- `RootsNameTheirBlock`: while the node stays on its chain during the call, the
  roots are the subtrees of the pool from the index asked for, none skipped and
  none missing below the limit, each with the hash of the block that completed
  it, or none.
- `OnlyWholeBlocks`: a block is accepted exactly if all of it and nothing else
  arrived and its coinbase states a height. `HeightSurvives`: that height is the
  one that is read. `KeepsShielded`: the kept transactions are the shielded ones
  in order, and their commitments are all the commitments of the block.
- `NoFalseAgreement`: no issue is reported only if the rows can be paired one to
  one, whatever the reference sends, repeated rows included. `NoFalseIssue`: if
  they can, and no two rows of a block share an id, no issue is reported; of
  repeated rows it says nothing.
- `AcceptedWhileNodeRuns`: past bootstrap, every client made so far is accepted
  by the node for as long as the node that answered bootstrap runs. Four
  resolutions of the credentials each give what the node takes although cookie
  files come and go between them. A node that restarts under Zeaking with a new cookie
  locks it out; this is the strongest statement that is true.
- `CookieFound`: a client made while a node with a cookie is up has that cookie,
  unless a usable pair comes earlier in the order of the sources. That happens:
  a Zebra that was killed leaves a cookie that hides the one of a Zakura.
- `InfoOfTwoNodes`: chain and subversion of `NodeInfo` can be of two runs of the
  node, if it restarts between the two calls of `probe_node`, but only if both
  runs accept the credentials of one client, and then the chain is the earlier
  one's. A cookie rules that out, as the new run refuses it; a user and password
  both runs are configured with, or a node without authentication, do not, and
  `process` reaches such a `NodeInfo` with the latter. The kind named at start-up
  fits where `NodeInfo` is of the run that answered bootstrap.
- `InfoRefreshes`: see section 4.
- `OkMeansTaken`: error code 0 is told only if the node took the transaction on
  that request. `RefusalIsFinal`: an answer that names a refusal (empty, HTTP
  status, error object) is true and stays true: that request is not taken and
  not on its way. A transport, decoding or missing-result error leaves it open.
  A retry after such an error is refused if the first try was taken.
- `EveryCallAnswered`: see section 4.
- `SuccessMeansParity`: exit code 0 means that something was compared, that the
  window was the last `n` heights (one at least, all of a shorter chain), that
  each was compared with each configured view, and that the views agree there
  if none of the three chains moved meanwhile: on the block of each height and on
  each size that is not 0. A size of 0 is compared with nothing, so a row without
  sizes passes. `FailureMeansDifference`: a reported mismatch is real if nothing
  moved, whatever sizes the node or the engine does not know.

### Bounds, and why they are enough

No action is bounded by a counter: the forest is finite, so every state space
is finite and explored completely. Four heights and two branches of unequal
length give every relation a reorganisation can have to the store: a new branch
shorter than, as long as and longer than the stored one, with the fork below
the first row, between rows or at the top, and a store whose lower rows are of
one branch and upper rows of another. Three commitments vectors of different
pools and a genesis block without commitments tell a lost, doubled or foreign
seed apart from a right one, and give rows whose true sizes are all zero. The
node's replies mix a size field for one pool with a finalState for the others.
A u32 range of 0..4 keeps saturation in the state space. `Backfill = 1` starts
above genesis on long chains (first row needs a seed) and at genesis on short
ones (subtraction saturates). A channel of one makes the task wait after every
send; on two branches of two heights a stream meets a tip drop, a prune and a
row of another branch where one was, and the range 0..2 ends above every tip.
Two networks of one shared height are enough to mix them (in the runs of
`Ingest`). In `serve`, sapling
completes a subtree in each block and orchard in one, so that a start index and
a limit each cut a list of two, and roots can be of an abandoned branch.

Three runs of the node are the fewest in which a cookie of another kind is left
behind and the node of the second kind restarts as itself; a bound on restarts is
the length of `RunKind`. In
`send_transaction` the operator's pair is taken, refused and taken again. Two
calls are one and its retry. In the probe, window 0
takes the branch where `n - 1` saturates, window 5 the one where `tip - (n - 1)`
does, and genesis without commitments makes the sizes fall through to `getblock`;
the engine's wrong row is that of a lost seed (finding 1), 0 in the pool its block
adds nothing to.

For the parser, bytes of eight values keep each case of a compact size and of a
height push at numbers a few digits long: the last height with an opcode and the
first without, the last of each width and the first of the next, the solution
length on both sides of the one-byte limit. Height 0 is pushed as the number that
stands for genesis, so the branch for `OP_0` (`src/compact.rs:146`) is modelled
but met by no input. For parity, two rows of ours and
three of the reference give a repeated row, an empty row before the match and
both orders; one of the two hashes is its own reversal.

### Findings

1. **A seed that cannot be had counts as zero** (`sizes_lost_seed`).
   `src/tree_sizes.rs:176` returns the default sizes when `z_gettreestate` and
   the `getblock` fallback both fail. The row gets its own commitments counted
   from 0 and, as that is not zero, every later row builds on it. Line 3 of the
   file promises the size after the block.
2. **A reorganisation that does not lower the tip below the store goes
   unnoticed** (`sizes_stale_row`). `src/ingest.rs:72-77` compares heights only,
   so rows of the old branch stay, new rows go on top, and their sizes build on
   the wrong branch although every seed was answered correctly.
3. **`--backfill` has no say once `--start-height` is set**
   (`backfill_ignored`). `max(start, min(tip - backfill, start))` at
   `src/ingest.rs:84` is `start` for every tip; `src/config.rs:48` promises at
   most that many blocks from the tip. Lemma `FirstHeightValue` proves it for
   all values.

## 4. Fairness and assumptions

`FairSpec` asks weak fairness of the ingest task's own steps and of `Boot`:
tokio schedules the task, the HTTP client's 60 s timeout ends every call, and
the sleep between passes ends. It asks nothing of `Restart` (an operator's
decision), of the node, or of failures, which may happen for ever. `CatchesUp`
therefore has a premise: from some point on the node stays on one block and
Zeaking is neither down nor in a failed pass. Its conclusion names the two ways
the code stops short: a block `raw_block_to_compact` rejects, and an empty
store whose first height lies above the tip.

`StreamFairSpec` asks weak fairness of the task and of the client's side as one
disjunction: the client reads, or finishes, or goes away. A client that keeps
the connection open and never reads again would hold the task for ever; that is
TCP's and tonic's business and not claimed here.

`Process`'s `Spec` asks weak fairness of the refresh task's calls that get
through: tokio runs the task, its sleep ends, and the node answers a call it
accepts. `InfoRefreshes` has as its premise that from some point on the server
is up, the node stays and accepts the client, and `getnetworkinfo` no longer
fails. `SendSpec` asks weak fairness of `Receive \/ TransportFails` per call and
nothing of node or network: the 60 s timeout set in `RpcClient::new` ends every
wait, which is what `EveryCallAnswered` says.

Assumed of the outside:

- the node answers by its active chain at the moment of the call, and a block's
  parent, height and sizes do not change (`ChainAssumption`,
  `TreeSizeAssumption`);
- the node is exchanged for one of *another network* only while Zeaking is
  down. The code compares networks at start-up only and would not notice
  anything else, so the network in `RowsInPlace` and all of `RowsMatchLabel` rest
  on it;
- tree sizes fit a u32 (the trees have depth 32);
- no two runs of a node have the same cookie, and no pair fixed in a node's
  configuration is one (`NodeAssumption`); the cookie is complete before the port
  is open, and a request reaches the node only through an open port;
- a node that stops loses the requests on their way to it and its mempool;
- an absent value is none that is there: `None` is no range, item, run of the
  node, kind, outcome, transaction or number, and a cookie is neither absent,
  blank nor without its colon (`RangeAssumption`, `AbsenceAssumption`,
  `SendAssumption`, `ProbeAssumption`);
- no solution length and no transaction count takes more than four bytes, no
  height more than the longest push, and no block has the height that is the
  number standing for the genesis block; a coinbase script starts with the push
  of its height, or holds none (`BlockAssumption`);
- the two blocks `compare_compact` gets are messages of the protocol, and ours
  has no row without shielded material (`ParityAssumption`);
- a store of an earlier version holds an interval of rows of the chain the node
  is on at the first start, all with size zero.

## 5. What is proved

Every theorem is for all values of the constants that meet the named `ASSUME`s
of the modules; TLC evaluates each of those on the instances. Each proof module
has one inductive invariant, which TLC checked on an instance before it was
proved, a lemma per action that the action keeps it, and one short theorem per
property that follows.

| Module | Theorem | Property |
|---|---|---|
| `IngestProofs` (`IInv`) | `TypeCorrect` | `TypeOK` |
| | `StoreContiguous`, `StoreInPlace`, `PassSeesNothingAboveTip`, `StoreSizesAccumulate` | `Contiguous`, `RowsInPlace`, `NothingAboveTip`, `SizesAccumulate` |
| | `StoreNeverRewritten`, `IndexedTipIsTop`, `RowsStoredUnderLabel` | the action properties `NeverRewritten`, `IndexedTipNamesTop`, `RowsMatchLabel` |
| | `ImplementsBlockCache` | `RefinesBlockCache` |
| | `StaleRowsAreDisputed` | `StaleOnlyWhereDisputed` |
| | `LinkedSizesExact` | `SizesExact`, if the node reports every pool (`FullReports`) |
| `RangeStreamProofs` (`SInv`) | `StreamTypeCorrect` | `StreamTypeOK` |
| | `SnapshotUntilPruned`, `StoredHeightsAreServed` | `StreamIsSnapshot`, `StoredHeightsServed` |
| | `ImplementsBlockFeed` | `RefinesBlockFeed` |
| `ServeProofs` (`CInv`) | `ServeTypeCorrect`, `LatestIsABlock`, `RootsAreOfTheirBlocks` | `ServeTypeOK`, `LatestNamesABlock`, `RootsNameTheirBlock` |
| | `TreeStateMatchesStore` | the action property `TreeStateOfStoredBlock` |
| `ProcessProofs` (`PInv`) | `ProcessTypeCorrect`, `ClientsAreAccepted`, `CookieIsFound`, `InfoOfTwoNodesOnlyIfAccepted` | `ProcessTypeOK`, `AcceptedWhileNodeRuns`, `CookieFound`, `InfoOfTwoNodes` |
| `ProcessProofs` (`SInv`, `TInv`) | `SendTypeCorrect`, `SuccessIsTaken`, `RefusalStands` | `SendTypeOK`, `OkMeansTaken`, `RefusalIsFinal` |
| `ParityProofs` (`MInv`) | `ParityTypeCorrect`, `AgreementIsTrue`, `IssuesAreTrue` | `ParityTypeOK`, `NoFalseAgreement`, `NoFalseIssue` |
| `ParityProbeProofs` (`QInv`) | `SuccessIsParity` | `SuccessMeansParity` |
| | `FailureIsDifference` | `FailureMeansDifference` |
| `CompactCodecProofs` (`CodecInv`) | `CodecTypeCorrect`, `WholeBlocksOnly`, `HeightIsRead`, `ShieldedIsKept` | `CodecTypeOK`, `OnlyWholeBlocks`, `HeightSurvives`, `KeepsShielded` |

**`Ingest`.** `Contiguous` alone is not inductive: that a put leaves no gap
depends on the height chosen several calls earlier. `IInv` adds what the task
knows at each step: the stored heights are an interval (`Interval`); the height
in flight is the one above the store, or the store is empty, from `Plan` to
`Put`, and the top of the store after it (`SlotOK`); the locals a step needs
are there and lie between the prune's tip and the row below (`PassOK`,
`NothingAboveTip`); a block's base is the sizes of the row below whenever that
row has any (`BaseOK`); past bootstrap the node is on the configured network
(`NetworkOK`). `StepIInv` has one case per action. That the ingest task is the
only writer carries the proof: the node may move at every step and no conjunct
but `NetworkOK` depends on `best`. The refinement follows: by `SlotOK` a put is
an `Append`, by `NothingAboveTip` a prune is a `Rollback`, and everything else
stutters. `StaleRowsAreDisputed` needs a second invariant on top, `SeenOK`: every
held block and the whole active chain are in `seen`. A fetch keeps it because the
hash is of the active chain at that moment, a move because the chain it moves to
is seen, and a prune, which forgets blocks, because no row is left above its tip
(`PruneEffect`, also when the code finds nothing to prune).
`LinkedSizesExact` adds `SeedOK` (a base that was not misseeded is the true size
of the parent), `RowsStoredUnderLabel` `LabelOK` (past bootstrap the label names
the node's network, which no move under a running Zeaking changes).

**`RangeStream`.** An item is read under a lock of its own and reaches the client
several steps later, so each property is about three places at once: what the
client has, the channel, the task's hand. `InOrder` says that the three, put one
behind the other, are the heights from the start of the range to the next one to
be read; `AllSound` that until a prune every block among them is still the
stored one, `AllMissing` that until a prune none reported missing was stored at
the request. With `IInv` a put lies above every row, so it cannot disturb either.
For the refinement `ReadRow` is a `Take` of `BlockFeed`, the end of a response is
its `Finish`, and moving an item from one place to the next stutters, because the
concatenation stays the same.

**`Serve`.** `CInv` says what a handler's locals are worth while other actors go
on: `LatestOK`, the height it read still has its row or a
prune came; `RootsOK`, the roots and the ends still without a hash are together
the subtrees of the chain the node is on by now, from the index asked for, and
complete up to the limit, unless the node left the chain of the request. The last
one needs that subtrees of a longer chain extend those of its prefix, a lemma
about `Ascending`. `TreeStateMatchesStore` takes `SeenOK` from `Ingest`: where the
node has had one block of a height, the stored one is the one it answers for.

**`Process`.** Four clients resolve their credentials at four moments. What makes
them agree is `BootStillFinds`: if the first client found the cookie of the
running node, the next one finds it too, because a file that comes before that
node's file holds nothing usable and only the running node writes files
(`FilesOK`, `NodeOK`, `AuthOK`); if what it found is not the cookie, it comes
from the environment or a stale file before it, and is found again. `ProbeOK`
says of a probe under way that the run that answered its first call accepts what
its client carries; the second call is answered by that run or a later one, and
then by one that accepts the same client, which gives `InfoOK` and with it
`InfoOfTwoNodesOnlyIfAccepted`.

**`SendTransaction`.** What a wallet was told depends on a response that waited
to be read, and that on a request that waited to be handled. `SInv` follows the
three: a request is posted once, from a free slot, and while it is on its way it
is neither taken nor answered (`OnceOnly`); a response that waits would be told
as something true (`ResponseTrue`); what was told is true (`OutcomeTrue`). A late
request cannot disturb a refusal because a response comes only after its request
has left the way, and a transport failure is not told as a refusal. Only the
types (`TInv`) need `PInv`: what a request carries is what a client was made
with.

**`Parity`.** `compare_compact` gives each row the first row of the reference that
fits and never takes a choice back. `MInv` keeps the pairing made so far: an
injection from the matched rows of ours onto the used rows of the reference
(`Matching`), every difference in it among the issues (`ReportedOK`). Without an
issue all of ours is matched and nothing shielded of the reference is left over,
which is the pairing `NoFalseAgreement` asks for. Conversely (`QuietOK`), if ids
are distinct and the blocks agree, a row has one candidate only, the one of the
pairing, so greed finds it.

**`ParityProbe`.** `QInv` counts: `pass + fail` is the number of heights done
times the number of views, plus one where only the engine's is still to come
(`Counted`). What was compared is what there is, as long as nothing moved
(`AsSeen`), so no failure among the judgements made means agreement on all of
them, and a failure means a difference in the window (`JudgedTruly`). The sizes
the probe encodes are the true ones or 0, whichever replies the node gives, and 0
contradicts nothing; so nothing is assumed of what the node reports.

**`CompactCodec`.** What is left to read is what is left of the block: byte by
byte in front of the transactions (`HeadOK`), one by one among them (`TxsOK`),
and all of it if and only if the block came whole (`WholeOK`). That the parser
knows where it is rests on three facts about what a node writes. A size is read
back when all its bytes are there and found short when one is missing
(`ReadCompactSizeFacts`), in the one-byte form and in the wider ones; so the
header's end and the count are found exactly when they came, and a cut is never
taken for another size. A number is read back from its bytes
(`LittleEndianOfBytes`), and from a height push in each of its forms
(`HeightRead`). The commitments of the compact transactions add up to those of
the transactions read so far (`KeptOK`), because a transaction that is not kept
adds zero to a saturating sum (`CommitmentCountsAppend`, `SaturatingFacts`).

The recursions behind these, `Higher` and the folds of `LittleEndian` and
`CommitmentCounts`, are each defined by a function that the proof shows to exist
(`RestsExist`, `ValuesExist`, `TalliesExist`). As everywhere in the proofs,
induction over a number or a list is done on the least counterexample
(`LeastNumber` of `SequenceFacts`), since the library's induction theorems take
an operator as a parameter.

Model-checked only: the liveness properties (`CatchesUp`, `StreamTaskEnds`,
`InfoRefreshes`, `EveryCallAnswered`), which are beyond the prover, and the three
findings, which are counterexamples.

## 6. Not modelled

- In `src/compact.rs`, what librustzcash reads inside a transaction, hashes,
  the protobuf encoding, and a solution length that no node serialises: its sum
  with the offset could overflow. `Ingest` sees the parser's verdict only, as
  the constant `Rejected`.
- `examples/live_smoke_probe.rs` and `scripts/`: a straight line of calls that
  prints what it gets, and a script that starts the binary.
- `ping` and the calls that answer UNIMPLEMENTED: constants.
- Texts: URL normalisation, the JSON spellings a field is accepted in, logging,
  protobuf encoding and generated code. A field that is missing from
  `getblockchaininfo` or a subtree entry is read as a default by the code; the
  node modelled here always sends it.
- Rows that no longer decode: `tree_sizes_after_block` treats them like a
  missing row and `serve` answers with an internal error, which is `ReadFails`.

## 7. Plan

Done, in this order: `TreeSizes`, `ZebraNode`, `CompactStore`, `BlockCache`,
`Ingest` with its runs and proofs, `RangeStream`, `Serve`, `CompactCodec`,
`Parity`, `BlockFeed` and the refinement by `RangeStream`, paging in `Serve`,
`Process`, `SendTransaction` and its proofs, `ParityProbe`; then the proofs of
`RangeStream`, `Serve`, `Process`, `SendTransaction`'s types, `Parity`,
`ParityProbe` and `CompactCodec`.

Next, theorems:

1. That `BlockCache` and `BlockFeed` imply, on their own, what a client is
   promised, so that the refinements carry the safety properties over.
