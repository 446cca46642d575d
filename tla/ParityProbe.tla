----------------------------- MODULE ParityProbe -----------------------------
(***************************************************************************)
(* The spot check of examples/lwd_parity_probe.rs: the last n blocks of a  *)
(* reference streamer, one by one, against what the parser makes of the    *)
(* node's blocks ("rpc") and against a running Zeaking ("engine").  The    *)
(* three follow the chain on their own, so each of the probe's calls may   *)
(* meet them on another branch than the one before.                        *)
(*                                                                         *)
(* A compact block is [block, sizes]: what the parser makes of the same    *)
(* block is the same whoever parses it, except for the tree sizes.         *)
(* Parity has compare_compact field by field.                              *)
(***************************************************************************)
EXTENDS ZebraNode, FiniteSetsExt

CONSTANTS
  None,
  EngineSizes,     (* the tree sizes in the row the engine has of a block    *)
  Windows          (* values of ZEAKING_PARITY_BLOCKS                        *)

ASSUME ProbeAssumption ==
  /\ EngineSizes \in [Block -> Sizes]
  /\ Windows \subseteq Nat
  /\ None \notin Nat

VARIABLES
  lwd, engine,     (* the tips of the reference and of the engine's store    *)
  probe,           (* the locals of main                                     *)
  moved            (* history: one of the three moved since the tip was read *)

probeVars == <<best, lwd, engine, probe, moved>>

views == <<best, lwd, engine>>

NewProbe(with, n) ==
  [with |-> with, n |-> n, step |-> "connect", tip |-> None, height |-> None,
   reference |-> None, block |-> None, pass |-> 0, fail |-> 0, exit |-> None]

ProbeInit ==
  /\ best \in Block /\ lwd \in Block /\ engine \in Block
  /\ \E with \in SUBSET {"rpc", "engine"} : \E n \in Windows : probe = NewProbe(with, n)
  /\ moved = FALSE

SaturatingSub(m, n) == IF n > m THEN 0 ELSE m - n

Start(tip, n) == SaturatingSub(tip, SaturatingSub(n, 1))

ReadTip ==
  /\ probe.step = "connect"
  /\ probe' = [probe EXCEPT !.step = "reference", !.tip = Height(lwd),
                            !.height = Start(Height(lwd), probe.n)]
  /\ UNCHANGED <<views, moved>>

(* One view of the height is dealt with, left are the ones still to be     *)
(* looked at; then comes the next height.                                  *)
Onward(p, left) ==
  CASE "rpc" \in left    -> [p EXCEPT !.step = "hash"]
    [] left = {"engine"} -> [p EXCEPT !.step = "engine"]
    [] left = {}         -> IF p.height < p.tip
                            THEN [p EXCEPT !.step = "reference", !.height = @ + 1]
                            ELSE [p EXCEPT !.step = "summary"]

(* A size of 0 is one that is not known, and is compared with nothing. *)
SizesAgree(a, b) == \A p \in Pools : a[p] = 0 \/ b[p] = 0 \/ a[p] = b[p]

(* What compare_compact says of two compact blocks. *)
SameCompact(ours, reference) ==
  ours.block = reference.block /\ SizesAgree(ours.sizes, reference.sizes)

(* Mutant of Judged: a size that is not known is a mismatch, too. *)
JudgedExactly(ours) ==
  IF ours = probe.reference
  THEN [probe EXCEPT !.pass = @ + 1, !.block = None]
  ELSE [probe EXCEPT !.fail = @ + 1, !.block = None]

Judged(ours) ==
  IF SameCompact(ours, probe.reference)
  THEN [probe EXCEPT !.pass = @ + 1, !.block = None]
  ELSE [probe EXCEPT !.fail = @ + 1, !.block = None]

FetchReference ==
  /\ probe.step = "reference"
  /\ probe.height <= Height(lwd)
  /\ LET b == BlockAt(lwd, probe.height)
     IN  probe' = Onward([probe EXCEPT !.reference = [block |-> b, sizes |-> TreeSize[b]]],
                         probe.with)
  /\ UNCHANGED <<views, moved>>

(* encode_from_rpc: the block, then its sizes by its height once more. *)
FetchBlock ==
  /\ probe.step = "hash"
  /\ probe.height <= Height(best)
  /\ probe' = [probe EXCEPT !.block = BlockAt(best, probe.height), !.step = "treestate"]
  /\ UNCHANGED <<views, moved>>

Encoded(sizes) ==
  probe' = Onward(Judged([block |-> probe.block, sizes |-> sizes]),
                  probe.with \ {"rpc"})

FetchSizes ==
  /\ probe.step = "treestate"
  /\ probe.height <= Height(best)
  /\ LET sizes == TreeSizesFromTreestate(TreestateReply(BlockAt(best, probe.height)))
     IN  ~IsZero(sizes) /\ Encoded(sizes)
  /\ UNCHANGED <<views, moved>>

(* z_gettreestate fails, or what it says is all 0. *)
NoTreestate ==
  /\ probe.step = "treestate"
  /\ probe' = [probe EXCEPT !.step = "verbose"]
  /\ UNCHANGED <<views, moved>>

(* getblockhash and the block it names *)
FetchVerbose ==
  /\ probe.step = "verbose"
  /\ probe.height <= Height(best)
  /\ Encoded(TreeSizesFromGetblock(TreesReply(BlockAt(best, probe.height))))
  /\ UNCHANGED <<views, moved>>

NoVerbose ==
  /\ probe.step = "verbose"
  /\ Encoded(ZeroSizes)
  /\ UNCHANGED <<views, moved>>

(* get_block of Zeaking, which serves no height 0. *)
FetchEngine ==
  /\ probe.step = "engine"
  /\ probe.height \in 1 .. Height(engine)
  /\ LET b == BlockAt(engine, probe.height)
     IN  probe' = Onward(Judged([block |-> b, sizes |-> EngineSizes[b]]), {})
  /\ UNCHANGED <<views, moved>>

Exit(code) == probe' = [probe EXCEPT !.step = "done", !.exit = code]

(* A call that main returns the error of, which is exit code 1 as well. *)
Abort ==
  /\ probe.step \in {"connect", "reference", "hash", "engine"}
  /\ Exit(1)
  /\ UNCHANGED <<views, moved>>

(* Mutant of Summary: the last word has the passes. *)
SummaryOfPasses ==
  /\ probe.step = "summary"
  /\ Exit(IF probe.with = {} THEN 2 ELSE IF probe.pass = 0 THEN 1 ELSE 0)
  /\ UNCHANGED <<views, moved>>

Summary ==
  /\ probe.step = "summary"
  /\ Exit(IF probe.with = {} THEN 2 ELSE IF probe.fail > 0 THEN 1 ELSE 0)
  /\ UNCHANGED <<views, moved>>

ViewsMove ==
  /\ \/ \E b \in Block : NodeMove(b) /\ UNCHANGED <<lwd, engine>>
     \/ \E b \in Block \ {lwd} : lwd' = b /\ UNCHANGED <<best, engine>>
     \/ \E b \in Block \ {engine} : engine' = b /\ UNCHANGED <<best, lwd>>
  /\ moved' = (probe.step # "connect")
  /\ UNCHANGED probe

ProbeNext ==
  \/ ReadTip \/ FetchReference \/ FetchBlock \/ FetchSizes \/ NoTreestate
  \/ FetchVerbose \/ NoVerbose \/ FetchEngine \/ Abort \/ Summary \/ ViewsMove

ProbeSpec == ProbeInit /\ [][ProbeNext]_probeVars
-----------------------------------------------------------------------------
(* Properties. *)

Window == Start(probe.tip, probe.n) .. probe.tip

(* The engine's row at height h is one of the reference's block there, and *)
(* no size it knows contradicts the reference's.                           *)
EngineAgrees(h) ==
  /\ h <= Height(engine)
  /\ BlockAt(engine, h) = BlockAt(lwd, h)
  /\ SizesAgree(EngineSizes[BlockAt(lwd, h)], TreeSize[BlockAt(lwd, h)])

NodeAgrees(h) == h <= Height(best) /\ BlockAt(best, h) = BlockAt(lwd, h)

(* Exit code 0 means what a script takes it for, as far as the comparison  *)
(* goes: something was compared; every height of the window, the last n of *)
(* the reference's chain, was compared with each configured view; and, if  *)
(* nothing moved meanwhile, each view has the reference's block there and  *)
(* the engine's row no wrong size but 0.  A row that lost its seed is      *)
(* found out by it when it counts from 0 into another size, and passes     *)
(* where it counts nothing.                                                *)
SuccessMeansParity ==
  probe.exit = 0 =>
    /\ probe.pass > 0
    /\ probe.pass = Cardinality(Window) * Cardinality(probe.with)
    /\ Cardinality(Window) = Min({Max({probe.n, 1}), probe.tip + 1})
    /\ ~moved =>
         \A h \in Window :
           /\ "engine" \in probe.with => EngineAgrees(h)
           /\ "rpc" \in probe.with => NodeAgrees(h)

(* A mismatch that is reported is no false alarm, unless one of the three  *)
(* moved during the check: a view really differs in the window, whatever   *)
(* sizes the node could not give.  (Exit code 1 alone may also be a call   *)
(* that failed.)                                                           *)
FailureMeansDifference ==
  probe.fail > 0 /\ ~moved =>
    \E h \in Window :
      \/ "engine" \in probe.with /\ ~EngineAgrees(h)
      \/ "rpc" \in probe.with /\ ~NodeAgrees(h)
=============================================================================
