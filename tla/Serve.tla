-------------------------------- MODULE Serve --------------------------------
(***************************************************************************)
(* The calls of src/serve.rs that answer with one message (and the subtree *)
(* roots, which are collected before they are streamed), beside the ingest *)
(* task.  A handler reads the store and asks the node in separate steps,   *)
(* so that a prune, a new row or a reorganisation may come between them.   *)
(*                                                                         *)
(* Handlers only read, so one call in flight at a time shows everything a  *)
(* call can see of the store and the node.                                 *)
(***************************************************************************)
EXTENDS Ingest

CONSTANTS
  Requests,        (* the requests: records [kind, height], for subtrees     *)
                   (* [kind, pool, start, max], max = 0 for no maximum       *)
  Completing       (* by pool, the blocks that complete a subtree            *)

(* The pools ShieldedProtocol has a number for. *)
SubtreePools == {"sapling", "orchard"}

Kinds == {"latest", "block", "treestate", "latesttreestate", "subtrees", "info"}

ASSUME RequestAssumption ==
  /\ \A r \in Requests :
       /\ r.kind \in Kinds
       /\ IF r.kind = "subtrees"
          THEN r.start \in Nat /\ r.max \in Nat
          ELSE r.height \in Nat
  /\ Completing \in [SubtreePools -> SUBSET Block]

VARIABLES
  nodeChain,       (* chain of the NodeInfo that main shares with the server *)
  call             (* the call being handled                                 *)

serveVars == <<vars, nodeChain, call>>

(* height, network: locals of the handler; ends: heights of the subtree    *)
(* roots still to be given a hash; tip, moved (history, for subtrees): the *)
(* node's tip when the call came in, and whether the node has since left   *)
(* its chain; pruned (history, for latest): a row has since gone away.     *)
NoCall ==
  [request |-> None, step |-> "idle", height |-> None, network |-> None,
   ends |-> << >>, roots |-> << >>, reply |-> None, tip |-> None,
   pruned |-> FALSE, moved |-> FALSE]

Reply(status, height, block, network) ==
  [status |-> status, height |-> height, block |-> block, network |-> network]

Answer(reply) ==
  call' = [NoCall EXCEPT !.request = call.request, !.step = "done",
             !.reply = reply, !.roots = call.roots, !.tip = call.tip,
             !.pruned = call.pruned, !.moved = call.moved]

Refuse(status) == Answer(Reply(status, None, None, None))

Up == pc \notin {"down", "boot"}

At(kind, step) == call.step = step /\ call.request.kind = kind

ServeInit == Init /\ nodeChain = None /\ call = NoCall

Issue(r) ==
  /\ Up
  /\ call.step = "idle"
  /\ call' = [NoCall EXCEPT !.request = r, !.step = "start",
                             !.tip = IF r.kind = "subtrees" THEN best ELSE None]
  /\ UNCHANGED <<vars, nodeChain>>

Return ==
  /\ call.step = "done"
  /\ call' = NoCall
  /\ UNCHANGED <<vars, nodeChain>>
-----------------------------------------------------------------------------
(* get_latest_block takes the store's lock twice; a row that is gone in    *)
(* between reads as the empty hash.                                        *)

LatestHeight ==
  /\ At("latest", "start")
  /\ IF MaxHeight = None
     THEN Refuse("unavailable")
     ELSE call' = [call EXCEPT !.step = "hash", !.height = MaxHeight]
  /\ UNCHANGED <<vars, nodeChain>>

(* Mutant of LatestHash: the hash of what is the top by now. *)
LatestHashOfTop ==
  /\ At("latest", "hash")
  /\ Answer(Reply("ok", call.height,
                  IF MaxHeight = None THEN None ELSE rows[MaxHeight].block, None))
  /\ UNCHANGED <<vars, nodeChain>>

LatestHash ==
  /\ At("latest", "hash")
  /\ Answer(Reply("ok", call.height,
                  IF HasRow(call.height) THEN rows[call.height].block ELSE None,
                  None))
  /\ UNCHANGED <<vars, nodeChain>>

(* get_block: height 0 cannot be told from an absent height. *)
GetBlock ==
  /\ At("block", "start")
  /\ LET h == call.request.height
     IN  \/ h = 0 /\ Refuse("invalid_argument")
         \/ h > 0 /\ ~HasRow(h) /\ Refuse("not_found")
         \/ h > 0 /\ HasRow(h) /\ Answer(Reply("ok", h, rows[h].block, None))
  /\ UNCHANGED <<vars, nodeChain>>

(* get_lightd_info: the network from the shared NodeInfo, then the height  *)
(* from the store, 0 when it is empty.                                     *)
LightdNode ==
  /\ At("info", "start")
  /\ call' = [call EXCEPT !.step = "indexed", !.network = nodeChain]
  /\ UNCHANGED <<vars, nodeChain>>

LightdHeight ==
  /\ At("info", "indexed")
  /\ Answer(Reply("ok", IF MaxHeight = None THEN 0 ELSE MaxHeight, None, call.network))
  /\ UNCHANGED <<vars, nodeChain>>
-----------------------------------------------------------------------------
(* get_tree_state and get_latest_tree_state: a height of the store (or the *)
(* client's, or the node's when the store is empty), then the network of   *)
(* the shared NodeInfo, then the node.                                     *)

AskTreeState(h) == call' = [call EXCEPT !.step = "named", !.height = h]

(* Mutant of TreeStateHeight: the tree state before the block is asked for. *)
TreeStateBelowHeight ==
  /\ At("treestate", "start")
  /\ LET h == call.request.height
     IN  \/ h > 0 /\ AskTreeState(h - 1)
         \/ h = 0 /\ MaxHeight # None /\ AskTreeState(MaxHeight - 1)
         \/ h = 0 /\ MaxHeight = None /\ Refuse("unavailable")
  /\ UNCHANGED <<vars, nodeChain>>

TreeStateHeight ==
  /\ At("treestate", "start")
  /\ LET h == call.request.height
     IN  \/ h > 0 /\ AskTreeState(h)
         \/ h = 0 /\ MaxHeight # None /\ AskTreeState(MaxHeight)
         \/ h = 0 /\ MaxHeight = None /\ Refuse("unavailable")
  /\ UNCHANGED <<vars, nodeChain>>

LatestTreeStateHeight ==
  /\ At("latesttreestate", "start")
  /\ IF MaxHeight # None
     THEN AskTreeState(MaxHeight)
     ELSE call' = [call EXCEPT !.step = "count"]
  /\ UNCHANGED <<vars, nodeChain>>

TreeStateCount ==
  /\ At("latesttreestate", "count")
  /\ AskTreeState(Height(best))
  /\ UNCHANGED <<vars, nodeChain>>

TreeStateNetwork ==
  /\ call.step = "named"
  /\ call' = [call EXCEPT !.step = "treestate", !.network = nodeChain]
  /\ UNCHANGED <<vars, nodeChain>>

(* Mutant of FetchTreeState: the tree state of the node's tip. *)
FetchTipTreeState ==
  /\ call.step = "treestate"
  /\ Answer(Reply("ok", call.height, best, call.network))
  /\ UNCHANGED <<vars, nodeChain>>

(* z_gettreestate by height on the chain the node is on now. *)
FetchTreeState ==
  /\ call.step = "treestate"
  /\ IF call.height <= Height(best)
     THEN Answer(Reply("ok", call.height, BlockAt(best, call.height), call.network))
     ELSE Refuse("internal")
  /\ UNCHANGED <<vars, nodeChain>>
-----------------------------------------------------------------------------
(* get_subtree_roots: the list from one call, then the completing block    *)
(* hash of each root by its height from a call of its own.  A hash that    *)
(* cannot be had is left empty.                                            *)

(* The members of a finite set of numbers, in order: the i-th is the one   *)
(* that has i - 1 below it.                                                *)
Ascending(S) ==
  [i \in 1 .. Cardinality(S) |->
     CHOOSE h \in S : Cardinality({k \in S : k < h}) = i - 1]

(* The heights at which the subtrees of a pool end on the chain to b. *)
EndHeights(pool, b) ==
  {h \in 1 .. Height(b) : BlockAt(b, h) \in Completing[pool]}

SubtreeEnds(pool, b) == Ascending(EndHeights(pool, b))

(* z_getsubtreesbyindex with two parameters and with three: the subtrees   *)
(* from index start on, of these the first limit ones.                     *)
SubtreesFrom(pool, start, b) ==
  LET ends == SubtreeEnds(pool, b) IN SubSeq(ends, start + 1, Len(ends))

SubtreesUpTo(pool, start, limit, b) ==
  LET ends == SubtreesFrom(pool, start, b)
  IN  SubSeq(ends, 1, Min({limit, Len(ends)}))

(* Mutant of Page: the maximum of the request goes to the node as it is. *)
PageAsAsked(request, b) ==
  SubtreesUpTo(request.pool, request.start, request.max, b)

(* A maximum of 0 is no maximum, and the parameter is left out. *)
Page(request, b) ==
  IF request.max = 0
  THEN SubtreesFrom(request.pool, request.start, b)
  ELSE SubtreesUpTo(request.pool, request.start, request.max, b)

FetchSubtrees ==
  /\ At("subtrees", "start")
  /\ IF call.request.pool \in SubtreePools
     THEN call' = [call EXCEPT !.step = "ends", !.ends = Page(call.request, best)]
     ELSE Refuse("internal")
  /\ UNCHANGED <<vars, nodeChain>>

Resolved(block) ==
  call' = [call EXCEPT !.ends = Tail(@),
             !.roots = Append(@, [height |-> Head(call.ends), block |-> block])]

ResolveEnd ==
  /\ At("subtrees", "ends")
  /\ call.ends # << >>
  /\ Head(call.ends) <= Height(best)
  /\ Resolved(BlockAt(best, Head(call.ends)))
  /\ UNCHANGED <<vars, nodeChain>>

ResolveEndFails ==
  /\ At("subtrees", "ends")
  /\ call.ends # << >>
  /\ Resolved(None)
  /\ UNCHANGED <<vars, nodeChain>>

SubtreesDone ==
  /\ At("subtrees", "ends")
  /\ call.ends = << >>
  /\ Answer(Reply("ok", None, None, None))
  /\ UNCHANGED <<vars, nodeChain>>
-----------------------------------------------------------------------------
(* A store or node error that the handler returns. *)
CallFails ==
  /\ call.step \in {"start", "hash", "indexed", "count", "treestate"}
  /\ Refuse(IF call.step = "count" THEN "unavailable" ELSE "internal")
  /\ UNCHANGED <<vars, nodeChain>>

(* main: the probe every 15 s; its errors leave the NodeInfo as it is. *)
RefreshNode ==
  /\ Up
  /\ nodeChain' = ChainName(best)
  /\ UNCHANGED <<vars, call>>

(* The ingest task and the node go on meanwhile.  bootstrap hands its      *)
(* NodeInfo to the server; calls die with the process.                     *)
IngestMeanwhile ==
  /\ Next
  /\ nodeChain' = CASE pc = "boot" /\ pc' = "poll" -> ChainName(best)
                    [] pc' = "down" -> None
                    [] OTHER -> nodeChain
  /\ call' = IF pc' = "down" \/ call.step = "idle"
             THEN NoCall
             ELSE [call EXCEPT
                     !.pruned = \/ @
                                \/ /\ call.request.kind = "latest"
                                   /\ ~(DOMAIN rows \subseteq DOMAIN rows'),
                     !.moved = \/ @
                               \/ /\ call.request.kind = "subtrees"
                                  /\ ~OnChain(best, best')]

ServeNext ==
  \/ IngestMeanwhile
  \/ \E r \in Requests : Issue(r)
  \/ LatestHeight \/ LatestHash \/ GetBlock \/ LightdNode \/ LightdHeight
  \/ TreeStateHeight \/ LatestTreeStateHeight \/ TreeStateCount
  \/ TreeStateNetwork \/ FetchTreeState
  \/ FetchSubtrees \/ ResolveEnd \/ ResolveEndFails \/ SubtreesDone
  \/ CallFails \/ RefreshNode \/ Return

ServeSpec == ServeInit /\ [][ServeNext]_serveVars
-----------------------------------------------------------------------------
(* Properties. *)

ServeTypeOK ==
  /\ TypeOK
  /\ nodeChain \in Block \cup {None}
  /\ call.request \in Requests \cup {None}
  /\ call.step \in {"idle", "start", "hash", "indexed", "count", "named",
                    "treestate", "ends", "done"}
  /\ call.height \in Nat \cup {None}
  /\ call.network \in Block \cup {None}
  /\ call.ends \in Seq(Nat)
  /\ call.roots \in Seq([height : Nat, block : Block \cup {None}])
  /\ call.tip \in Block \cup {None}
  /\ call.pruned \in BOOLEAN /\ call.moved \in BOOLEAN

Replied(kind) == At(kind, "done") /\ call.reply.status = "ok"

(* get_latest_block answers with a height and the hash of a block of that  *)
(* height; the hash is only ever empty because a prune came between the    *)
(* two reads.                                                              *)
LatestNamesABlock ==
  Replied("latest") =>
    \/ call.reply.block = None /\ call.pruned
    \/ call.reply.block # None /\ Height(call.reply.block) = call.reply.height

(* The tree state a client gets for a height is the one after the block    *)
(* stored at that height, although one comes from the node and the other   *)
(* from the store, unless the node has had two blocks at that height since *)
(* the last prune below it.  A reorganisation above the height is no harm. *)
TreeStateOfStoredBlock ==
  [][call.step = "treestate" /\ call'.step = "done" =>
       LET reply == call'.reply
       IN  reply.status = "ok" /\ HasRow(reply.height) /\ ~Disputed(reply.height) =>
             reply.block = rows[reply.height].block]_serveVars

(* If the node stays on its chain during the call, the roots a client gets *)
(* are the subtrees of its pool from the index it asked for, none skipped  *)
(* and none missing below its maximum, each with the block that completed  *)
(* it or with no hash, although list and hashes come from separate calls.  *)
RootsNameTheirBlock ==
  Replied("subtrees") /\ ~call.moved =>
    LET asked == call.request
        ends  == SubtreeEnds(asked.pool, best)
    IN  /\ \A i \in DOMAIN call.roots :
             /\ asked.start + i \in DOMAIN ends
             /\ call.roots[i].height = ends[asked.start + i]
             /\ call.roots[i].block \in {None, BlockAt(best, call.roots[i].height)}
        /\ \/ asked.max = Len(call.roots) /\ asked.max # 0
           \/ Len(SubtreeEnds(asked.pool, call.tip)) <= asked.start + Len(call.roots)
        /\ asked.max # 0 => Len(call.roots) <= asked.max
=============================================================================
