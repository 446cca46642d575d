-------------------------- MODULE ParityProbeProofs --------------------------
(***************************************************************************)
(* Proofs about ParityProbe, for every forest of blocks, every engine,     *)
(* every window and every way in which the three chains move meanwhile.    *)
(***************************************************************************)
EXTENDS ParityProbe, SequenceFacts, FiniteSetTheorems

First == Start(probe.tip, probe.n)

Comparing == {"hash", "treestate", "verbose", "engine"}

Running == Comparing \cup {"reference", "summary"}

Locals ==
  /\ probe.with \in SUBSET {"rpc", "engine"}
  /\ probe.n \in Nat /\ probe.pass \in Nat /\ probe.fail \in Nat
  /\ probe.step \in {"connect", "done"} \cup Running
  /\ probe.tip \in Nat \cup {None}
  /\ probe.step \in Running => probe.tip # None
  /\ probe.step \in Running => probe.height \in First .. probe.tip
  /\ probe.step \in {"hash", "treestate", "verbose"} => "rpc" \in probe.with
  /\ probe.step = "engine" => "engine" \in probe.with

(* How many judgements there were: one of each view for every height that  *)
(* is done, and one more where the engine's is still to come.              *)
Counted ==
  LET k == Cardinality(probe.with)
      sofar == probe.pass + probe.fail
  IN  /\ probe.step = "connect" => probe.tip = None /\ probe.pass = 0 /\ probe.fail = 0
      /\ probe.step \in (Comparing \ {"engine"}) \cup {"reference"} =>
           sofar = (probe.height - First) * k
      /\ probe.step = "engine" => sofar = (probe.height - First) * k + k - 1
      /\ probe.step = "summary" =>
           probe.height = probe.tip /\ sofar = (probe.tip - First + 1) * k
      /\ probe.exit = 0 => /\ probe.step = "done" /\ probe.tip # None
                           /\ k > 0 /\ probe.fail = 0
                           /\ probe.pass = (probe.tip - First + 1) * k
      /\ probe.tip = None => probe.fail = 0

(* The judgements so far: view v at height h. *)
Done(v, h) ==
  /\ v \in probe.with
  /\ \/ probe.step \in Comparing \cup {"reference"} /\ h \in First .. probe.height - 1
     \/ probe.step = "engine" /\ v = "rpc" /\ h = probe.height
     \/ (probe.step = "summary" \/ probe.exit = 0) /\ h \in Window

Agrees(v, h) == IF v = "engine" THEN EngineAgrees(h) ELSE NodeAgrees(h)

(* As long as nothing has moved, what was compared is what there is. *)
AsSeen ==
  ~moved /\ probe.tip # None =>
    /\ probe.tip = Height(lwd)
    /\ probe.step \in Comparing =>
         probe.reference = [block |-> BlockAt(lwd, probe.height),
                            sizes |-> TreeSize[BlockAt(lwd, probe.height)]]
    /\ probe.step \in {"treestate", "verbose"} =>
         probe.height <= Height(best) /\ probe.block = BlockAt(best, probe.height)

(* No judgement failed, so the views agree; one failed, so a view differs. *)
JudgedTruly ==
  ~moved /\ probe.tip # None =>
    /\ probe.fail = 0 =>
         \A v \in {"rpc", "engine"}, h \in Nat : Done(v, h) => Agrees(v, h)
    /\ probe.fail > 0 =>
         \E v \in probe.with, h \in Window : ~Agrees(v, h)

Fields ==
  {"with", "n", "step", "tip", "height", "reference", "block", "pass", "fail", "exit"}

ProbeRecord == DOMAIN probe = Fields

QInv ==
  /\ best \in Block /\ lwd \in Block /\ engine \in Block
  /\ ProbeRecord /\ Locals /\ Counted /\ AsSeen /\ JudgedTruly
-----------------------------------------------------------------------------
(* Heights, windows and sizes. *)

LEMMA StartFacts ==
  ASSUME NEW tip \in Nat, NEW n \in Nat
  PROVE  /\ Start(tip, n) \in 0 .. tip
         /\ tip - Start(tip, n) + 1 = Min({Max({n, 1}), tip + 1})
<1> DEFINE m == IF n > 1 THEN n ELSE 1
           l == IF m < tip + 1 THEN m ELSE tip + 1
<1>1. Start(tip, n) = IF m > tip + 1 THEN 0 ELSE tip + 1 - m
  BY DEF Start, SaturatingSub
<1>2. Max({n, 1}) = m
  <2>1. m \in {n, 1} /\ \A y \in {n, 1} : m >= y
    OBVIOUS
  <2>2. \A x \in {n, 1} : (\A y \in {n, 1} : x >= y) => x = m
    OBVIOUS
  <2> HIDE DEF m
  <2> QED
    BY <2>1, <2>2 DEF Max
<1>3. m \in Nat
  OBVIOUS
<1> HIDE DEF m
<1>4. l \in {m, tip + 1} /\ l <= m /\ l <= tip + 1
  BY <1>3
<1>5. {m, tip + 1} \in SUBSET Nat /\ {m, tip + 1} # {}
  BY <1>3
<1>6. Min({m, tip + 1}) = l
  <2>1. /\ Min({m, tip + 1}) \in {m, tip + 1}
        /\ \A y \in {m, tip + 1} : Min({m, tip + 1}) <= y
    BY <1>5, LeastNumber
  <2> QED
    BY <1>3, <1>4, <2>1
<1>7. Start(tip, n) \in 0 .. tip /\ tip - Start(tip, n) + 1 = l
  <2>1. m > 0
    BY DEF m
  <2> QED
    BY <1>1, <1>3, <2>1
<1> QED
  BY <1>2, <1>6, <1>7

LEMMA ViewCount ==
  ASSUME NEW with \in SUBSET {"rpc", "engine"}
  PROVE  \/ with = {} /\ Cardinality(with) = 0
         \/ with = {"rpc"} /\ Cardinality(with) = 1
         \/ with = {"engine"} /\ Cardinality(with) = 1
         \/ with = {"rpc", "engine"} /\ Cardinality(with) = 2
<1>1. with \in {{}, {"rpc"}, {"engine"}, {"rpc", "engine"}}
  OBVIOUS
<1>2. Cardinality({}) = 0 /\ Cardinality({"rpc"}) = 1 /\ Cardinality({"engine"}) = 1
  BY FS_EmptySet, FS_Singleton
<1>3. Cardinality({"rpc"} \cup {"engine"}) = 2
  <2>1. IsFiniteSet({"rpc"}) /\ "engine" \notin {"rpc"}
    BY FS_Singleton
  <2>2. Cardinality({"rpc"} \cup {"engine"}) = Cardinality({"rpc"}) + 1
    BY <2>1, FS_AddElement
  <2> QED
    BY <1>2, <2>2
<1>4. {"rpc"} \cup {"engine"} = {"rpc", "engine"}
  OBVIOUS
<1> QED
  BY <1>1, <1>2, <1>3, <1>4

(* One height more is k judgements more. *)
LEMMA OneMore ==
  ASSUME NEW d \in Int, NEW k \in {0, 1, 2}
  PROVE  /\ d * k \in Int /\ (d + 1) * k = d * k + k
         /\ k = 0 => d * k = 0
<1>1. d * 0 = 0 /\ d * 1 = d /\ d * 2 = d + d
  OBVIOUS
<1>2. (d + 1) * 0 = 0 /\ (d + 1) * 1 = d + 1 /\ (d + 1) * 2 = d + d + 2
  OBVIOUS
<1> QED
  BY <1>1, <1>2

LEMMA BlockAtIsBlock ==
  ASSUME NEW b \in Block, NEW h \in Nat, h <= Height(b)
  PROVE  BlockAt(b, h) \in Block
<1>1. Chain[b] \in Seq(Block) /\ Len(Chain[b]) \in Nat
  BY ChainAssumption, LenProperties
<1>2. h + 1 \in 1 .. Len(Chain[b])
  BY <1>1 DEF Height
<1> QED
  BY <1>1, <1>2, ElementOfSeq DEF BlockAt

LEMMA HeightIsNumber ==
  ASSUME NEW b \in Block
  PROVE  Height(b) \in Nat
<1>1. Len(Chain[b]) \in Nat /\ Len(Chain[b]) > 0
  BY ChainAssumption, LenProperties
<1> QED
  BY <1>1 DEF Height

(* What the node says of a size is true or nothing. *)
LEMMA KnownSizesAreTrue ==
  ASSUME NEW b \in Block
  PROVE  /\ SizesAgree(TreeSizesFromTreestate(TreestateReply(b)), TreeSize[b])
         /\ SizesAgree(TreeSizesFromGetblock(TreesReply(b)), TreeSize[b])
         /\ SizesAgree(ZeroSizes, TreeSize[b])
<1>1. \A p \in Pools : TreeSizesFromTreestate(TreestateReply(b))[p] \in {0, TreeSize[b][p]}
  BY DEF TreeSizesFromTreestate, TreestateReply, PoolJsonSize
<1>2. \A p \in Pools : TreeSizesFromGetblock(TreesReply(b))[p] \in {0, TreeSize[b][p]}
  BY DEF TreeSizesFromGetblock, TreesReply, PoolJsonSize
<1>3. \A p \in Pools : ZeroSizes[p] = 0
  BY DEF ZeroSizes
<1> QED
  BY <1>1, <1>2, <1>3 DEF SizesAgree

(* What Onward leaves alone, and where it goes. *)
LEMMA OnwardFacts ==
  ASSUME NEW p, DOMAIN p = Fields, NEW left \in SUBSET {"rpc", "engine"}
  PROVE  LET q == Onward(p, left)
         IN  /\ DOMAIN q = Fields
             /\ \A f \in Fields \ {"step", "height"} : q[f] = p[f]
             /\ "rpc" \in left => q.step = "hash" /\ q.height = p.height
             /\ left = {"engine"} => q.step = "engine" /\ q.height = p.height
             /\ left = {} /\ p.height < p.tip =>
                  q.step = "reference" /\ q.height = p.height + 1
             /\ left = {} /\ ~(p.height < p.tip) =>
                  q.step = "summary" /\ q.height = p.height
<1>1. \/ "rpc" \in left \/ left = {"engine"} \/ left = {}
  OBVIOUS
<1>2. CASE "rpc" \in left
  <2>1. Onward(p, left) = [p EXCEPT !.step = "hash"]
    BY <1>2 DEF Onward
  <2> QED
    BY <1>2, <2>1 DEF Fields
<1>3. CASE left = {"engine"}
  <2>1. Onward(p, left) = [p EXCEPT !.step = "engine"]
    BY <1>3 DEF Onward
  <2> QED
    BY <1>3, <2>1 DEF Fields
<1>4. CASE left = {} /\ p.height < p.tip
  <2>1. Onward(p, left) = [p EXCEPT !.step = "reference", !.height = @ + 1]
    BY <1>4 DEF Onward
  <2> QED
    BY <1>4, <2>1 DEF Fields
<1>5. CASE left = {} /\ ~(p.height < p.tip)
  <2>1. Onward(p, left) = [p EXCEPT !.step = "summary"]
    BY <1>5 DEF Onward
  <2> QED
    BY <1>5, <2>1 DEF Fields
<1> QED
  BY <1>1, <1>2, <1>3, <1>4, <1>5

LEMMA ViewsStay ==
  ASSUME UNCHANGED views
  PROVE  /\ best' = best /\ lwd' = lwd /\ engine' = engine
         /\ \A v, h : Agrees(v, h)' <=> Agrees(v, h)
  BY DEF views, Agrees, EngineAgrees, NodeAgrees

LEMMA InitQInv == ProbeInit => QInv
<1> SUFFICES ASSUME ProbeInit PROVE QInv
  OBVIOUS
<1>1. PICK with \in SUBSET {"rpc", "engine"}, n \in Windows : probe = NewProbe(with, n)
  BY DEF ProbeInit
<1>2. n \in Nat /\ None # 0
  BY ProbeAssumption
<1> QED
  BY <1>1, <1>2 DEF ProbeInit, NewProbe, QInv, ProbeRecord, Fields, Locals, Running,
                    Comparing, Counted, AsSeen, JudgedTruly
-----------------------------------------------------------------------------
(* The steps. *)

(* Something moves, and nothing more is said of what was compared. *)
LEMMA ViewsMoveStep ==
  ASSUME QInv, ViewsMove
  PROVE  QInv'
<1>1. /\ best' \in Block /\ lwd' \in Block /\ engine' \in Block
      /\ moved' = (probe.step # "connect") /\ probe' = probe
  BY DEF QInv, ViewsMove, NodeMove
<1>2. moved' \/ probe.tip = None
  BY <1>1 DEF QInv, Counted
<1> QED
  BY <1>1, <1>2 DEF QInv, ProbeRecord, Locals, Counted, First, AsSeen, JudgedTruly

LEMMA ReadTipStep ==
  ASSUME QInv, ReadTip
  PROVE  QInv'
<1> DEFINE tip == Height(lwd)
           first == Start(tip, probe.n)
           k == Cardinality(probe.with)
<1>1. /\ probe.step = "connect"
      /\ probe' = [probe EXCEPT !.step = "reference", !.tip = tip, !.height = first]
      /\ best' = best /\ lwd' = lwd /\ engine' = engine
  BY DEF ReadTip, views
<1>2. /\ best \in Block /\ lwd \in Block /\ engine \in Block
      /\ tip \in Nat /\ tip # None /\ probe.n \in Nat /\ probe.with \in SUBSET {"rpc", "engine"}
      /\ probe.pass = 0 /\ probe.fail = 0 /\ probe.exit # 0 /\ DOMAIN probe = Fields
  BY <1>1, HeightIsNumber, ProbeAssumption DEF QInv, Locals, Counted, ProbeRecord
<1>3. first \in 0 .. tip
  BY <1>2, StartFacts
<1>4. k \in Nat /\ (first - first) * k = 0
  <2>1. k \in Nat
    BY <1>2, ViewCount
  <2>2. first - first = 0 /\ 0 * k = 0
    BY <1>3, <2>1
  <2> QED
    BY <2>1, <2>2
<1> HIDE DEF tip
<1>5. /\ probe'.step = "reference" /\ probe'.tip = tip /\ probe'.height = first
      /\ probe'.pass = 0 /\ probe'.fail = 0 /\ probe'.exit = probe.exit
      /\ probe'.with = probe.with /\ probe'.n = probe.n /\ DOMAIN probe' = Fields
  BY <1>1, <1>2 DEF Fields
<1>6. First' = first
  BY <1>5 DEF First
<1> HIDE DEF first, k
<1>7. Locals'
  BY <1>2, <1>3, <1>5, <1>6 DEF Locals, Running, Comparing
<1>8. Counted'
  BY <1>2, <1>4, <1>5, <1>6 DEF Counted, Comparing, k
<1>9. AsSeen'
  BY <1>1, <1>5 DEF AsSeen, Comparing, tip
<1>10. \A v, h : ~Done(v, h)' \/ h \notin Nat
  <2>1. \A h \in Nat : h \notin first .. first - 1
    BY <1>3
  <2> QED
    BY <1>2, <1>5, <1>6, <2>1 DEF Done
<1>11. JudgedTruly'
  BY <1>5, <1>10 DEF JudgedTruly
<1> QED
  BY <1>1, <1>2, <1>5, <1>7, <1>8, <1>9, <1>11 DEF QInv, ProbeRecord

(* The reference's block: without a view to compare it with, the height is *)
(* done.                                                                   *)
LEMMA FetchReferenceStep ==
  ASSUME QInv, FetchReference
  PROVE  QInv'
<1> DEFINE b == BlockAt(lwd, probe.height)
           p == [probe EXCEPT !.reference = [block |-> b, sizes |-> TreeSize[b]]]
           q == Onward(p, probe.with)
           k == Cardinality(probe.with)
<1>1. /\ probe.step = "reference" /\ probe' = q
      /\ UNCHANGED <<views, moved>>
  BY DEF FetchReference
<1>2. /\ DOMAIN probe = Fields /\ probe.with \in SUBSET {"rpc", "engine"}
      /\ probe.tip \in Nat /\ probe.tip # None /\ probe.height \in First .. probe.tip
      /\ probe.n \in Nat /\ probe.pass \in Nat /\ probe.fail \in Nat
      /\ probe.pass + probe.fail = (probe.height - First) * k
      /\ probe.exit # 0
  BY <1>1 DEF QInv, ProbeRecord, Locals, Counted, Running
<1>3. First \in 0 .. probe.tip
  BY <1>2, StartFacts DEF First
<1>4. /\ DOMAIN p = Fields
      /\ \A f \in Fields \ {"reference"} : p[f] = probe[f]
      /\ p.reference = [block |-> b, sizes |-> TreeSize[b]]
  BY <1>2 DEF Fields
<1> HIDE DEF p, b
<1>5. /\ DOMAIN q = Fields
      /\ \A f \in Fields \ {"step", "height"} : q[f] = p[f]
      /\ "rpc" \in probe.with => q.step = "hash" /\ q.height = p.height
      /\ probe.with = {"engine"} => q.step = "engine" /\ q.height = p.height
      /\ probe.with = {} /\ p.height < p.tip =>
           q.step = "reference" /\ q.height = p.height + 1
      /\ probe.with = {} /\ ~(p.height < p.tip) =>
           q.step = "summary" /\ q.height = p.height
  BY <1>2, <1>4, OnwardFacts
<1> HIDE DEF q
<1>6. /\ probe'.with = probe.with /\ probe'.n = probe.n /\ probe'.tip = probe.tip
      /\ probe'.pass = probe.pass /\ probe'.fail = probe.fail /\ probe'.exit = probe.exit
      /\ probe'.reference = [block |-> b, sizes |-> TreeSize[b]]
      /\ p.height = probe.height /\ p.tip = probe.tip
  BY <1>1, <1>4, <1>5 DEF Fields
<1>7. First' = First
  BY <1>6 DEF First
<1>8. /\ best' = best /\ lwd' = lwd /\ engine' = engine /\ moved' = moved
      /\ \A v, h : Agrees(v, h)' <=> Agrees(v, h)
  BY <1>1, ViewsStay
<1>9. \/ /\ probe.with = {} /\ k = 0 /\ probe'.step = "reference"
         /\ probe'.height = probe.height + 1 /\ probe.height < probe.tip
      \/ /\ probe.with = {} /\ k = 0 /\ probe'.step = "summary"
         /\ probe'.height = probe.height /\ probe.height = probe.tip
      \/ probe.with = {"engine"} /\ k = 1 /\ probe'.step = "engine" /\ probe'.height = probe.height
      \/ "rpc" \in probe.with /\ probe'.step = "hash" /\ probe'.height = probe.height
  <2>1. probe.height < probe.tip \/ probe.height = probe.tip
    BY <1>2, <1>3
  <2> QED
    BY <1>1, <1>2, <1>5, <1>6, <2>1, ViewCount
<1>10. Locals'
  <2>1. probe'.height \in First .. probe.tip
    <3> DEFINE h == probe.height
               top == probe.tip
               low == First
               hn == probe'.height
    <3>1. /\ low \in Int /\ h \in low .. top /\ top \in Int
          /\ hn = h \/ (hn = h + 1 /\ h < top)
      BY <1>2, <1>3, <1>9
    <3> HIDE DEF h, top, low, hn
    <3>2. hn \in low .. top
      BY <3>1
    <3> QED
      BY <3>2 DEF hn, low, top
  <2>2. /\ probe'.step \in {"reference", "summary", "engine", "hash"}
        /\ probe'.step = "engine" => "engine" \in probe.with
        /\ probe'.step = "hash" => "rpc" \in probe.with
    BY <1>9
  <2> QED
    BY <1>2, <1>6, <1>7, <2>1, <2>2 DEF Locals, Running, Comparing
<1>11. Counted'
  <2> DEFINE h == probe.height
             sofar == probe.pass + probe.fail
             d == h - First
  <2>1. /\ h \in Int /\ First \in Int /\ d \in Int /\ sofar \in Int /\ k \in {0, 1, 2}
        /\ sofar = d * k
    BY <1>2, <1>3, ViewCount
  <2>2. d + 1 = h + 1 - First /\ d + 1 = h - First + 1
    BY <2>1
  <2> HIDE DEF d, h, sofar, k
  <2>3. /\ d * k \in Int /\ (d + 1) * k = d * k + k
        /\ k = 0 => d * k = 0 /\ (d + 1) * k = 0
        /\ k = 1 => sofar = d * k + k - 1
    BY <2>1, OneMore
  <2>4. CASE probe'.step = "reference"
    <3>1. k = 0 /\ probe'.height - First = d + 1
      <4> DEFINE hn == probe'.height
      <4>1. k = 0 /\ hn = h + 1
        BY <1>9, <2>4 DEF h, k
      <4> HIDE DEF hn
      <4>2. hn - First = d + 1
        BY <2>1, <2>2, <4>1
      <4> QED
        BY <4>1, <4>2 DEF hn
    <3>2. sofar = (probe'.height - First) * k
      BY <2>1, <2>3, <3>1
    <3> QED
      BY <1>2, <1>6, <1>7, <2>4, <3>2 DEF Counted, Comparing, sofar, k
  <2>5. CASE probe'.step = "summary"
    <3>1. k = 0 /\ probe'.height = probe.tip /\ probe.tip - First + 1 = d + 1
      BY <1>9, <2>2, <2>5 DEF h
    <3>2. sofar = (probe.tip - First + 1) * k
      BY <2>1, <2>3, <3>1
    <3> QED
      BY <1>2, <1>6, <1>7, <2>5, <3>1, <3>2 DEF Counted, Comparing, sofar, k
  <2>6. CASE probe'.step = "engine"
    BY <1>2, <1>6, <1>7, <1>9, <2>1, <2>3, <2>6 DEF Counted, Comparing, h, sofar, k, d
  <2>7. CASE probe'.step = "hash"
    BY <1>2, <1>6, <1>7, <1>9, <2>1, <2>7 DEF Counted, Comparing, h, sofar, k, d
  <2> QED
    BY <1>9, <2>4, <2>5, <2>6, <2>7
<1>12. AsSeen'
  BY <1>1, <1>6, <1>8, <1>9 DEF QInv, AsSeen, Comparing, b
<1>13. ASSUME NEW v \in {"rpc", "engine"}, NEW h \in Nat, Done(v, h)'
       PROVE  Done(v, h)
  BY <1>1, <1>2, <1>6, <1>7, <1>9, <1>13 DEF Done, Comparing
<1>14. JudgedTruly'
  BY <1>6, <1>7, <1>8, <1>13 DEF QInv, JudgedTruly, Window, First
<1> QED
  BY <1>5, <1>1, <1>8, <1>10, <1>11, <1>12, <1>14 DEF QInv, ProbeRecord

(* Steps that judge nothing and stay at their height. *)
LEMMA FetchBlockStep ==
  ASSUME QInv, FetchBlock \/ NoTreestate
  PROVE  QInv'
<1>1. /\ probe.step \in {"hash", "treestate"} /\ UNCHANGED <<views, moved>>
      /\ probe'.step \in {"treestate", "verbose"} /\ DOMAIN probe' = DOMAIN probe
      /\ \A f \in Fields \ {"step", "block"} : probe'[f] = probe[f]
      /\ \/ /\ probe.height <= Height(best) /\ probe'.block = BlockAt(best, probe.height)
         \/ probe.step = "treestate" /\ probe'.block = probe.block
  BY DEF FetchBlock, NoTreestate, QInv, ProbeRecord, Fields
<1>2. /\ probe'.with = probe.with /\ probe'.n = probe.n /\ probe'.tip = probe.tip
      /\ probe'.pass = probe.pass /\ probe'.fail = probe.fail /\ probe'.exit = probe.exit
      /\ probe'.reference = probe.reference /\ probe'.height = probe.height
  BY <1>1 DEF Fields
<1>3. First' = First
  BY <1>2 DEF First
<1>4. /\ best' = best /\ lwd' = lwd /\ engine' = engine /\ moved' = moved
      /\ \A v, h : Agrees(v, h)' <=> Agrees(v, h)
  BY <1>1, ViewsStay
<1>5. Locals'
  BY <1>1, <1>2, <1>3 DEF QInv, Locals, Running, Comparing
<1>6. Counted'
  BY <1>1, <1>2, <1>3 DEF QInv, Counted, Comparing
<1>7. AsSeen'
  BY <1>1, <1>2, <1>4 DEF QInv, AsSeen, Comparing
<1>8. ASSUME NEW v \in {"rpc", "engine"}, NEW h \in Nat, Done(v, h)'
      PROVE  Done(v, h)
  BY <1>1, <1>2, <1>3, <1>8 DEF Done, Comparing, QInv, Counted
<1>9. JudgedTruly'
  BY <1>2, <1>3, <1>4, <1>8 DEF QInv, JudgedTruly, Window, First
<1> QED
  BY <1>1, <1>4, <1>5, <1>6, <1>7, <1>9 DEF QInv, ProbeRecord

(* A judgement of view v at the height at hand, after which the views in   *)
(* left are still to come there.                                           *)
LEMMA JudgedStep ==
  ASSUME QInv, NEW v \in probe.with, NEW ours, NEW left,
         \/ v = "rpc" /\ probe.step \in {"treestate", "verbose"} /\ left = probe.with \ {"rpc"}
         \/ v = "engine" /\ probe.step = "engine" /\ left = {},
         probe' = Onward(Judged(ours), left),
         UNCHANGED <<views, moved>>,
         ~moved => (SameCompact(ours, probe.reference) <=> Agrees(v, probe.height))
  PROVE  QInv'
<1> DEFINE same == SameCompact(ours, probe.reference)
           p == Judged(ours)
           q == Onward(p, left)
           k == Cardinality(probe.with)
           h == probe.height
           low == First
           top == probe.tip
           sofar == probe.pass + probe.fail
           d == h - low
<1>1. /\ DOMAIN probe = Fields /\ probe.with \in SUBSET {"rpc", "engine"}
      /\ top \in Nat /\ top # None /\ h \in low .. top /\ probe.n \in Nat
      /\ probe.pass \in Nat /\ probe.fail \in Nat /\ probe.exit # 0
      /\ probe.step # "engine" => sofar = (h - low) * k
      /\ probe.step = "engine" => sofar = (h - low) * k + k - 1
      /\ "rpc" \notin left
  BY DEF QInv, ProbeRecord, Locals, Counted, Running, Comparing
<1>2. low \in 0 .. top
  BY <1>1, StartFacts DEF First
<1>3. /\ DOMAIN p = Fields
      /\ \A f \in Fields \ {"pass", "fail", "block"} : p[f] = probe[f]
      /\ same => p.pass = probe.pass + 1 /\ p.fail = probe.fail
      /\ ~same => p.pass = probe.pass /\ p.fail = probe.fail + 1
  BY <1>1 DEF Judged, Fields
<1> HIDE DEF p
<1>4. /\ DOMAIN q = Fields
      /\ \A f \in Fields \ {"step", "height"} : q[f] = p[f]
      /\ left = {"engine"} => q.step = "engine" /\ q.height = p.height
      /\ left = {} /\ p.height < p.tip =>
           q.step = "reference" /\ q.height = p.height + 1
      /\ left = {} /\ ~(p.height < p.tip) =>
           q.step = "summary" /\ q.height = p.height
  BY <1>1, <1>3, OnwardFacts
<1> HIDE DEF q
<1>5. /\ probe'.with = probe.with /\ probe'.n = probe.n /\ probe'.tip = top
      /\ probe'.exit = probe.exit /\ probe'.reference = probe.reference
      /\ p.height = h /\ p.tip = top
      /\ DOMAIN probe' = Fields
  BY <1>3, <1>4 DEF q, p, Fields
<1>6. \/ /\ same
         /\ probe'.pass = probe.pass + 1 /\ probe'.fail = probe.fail
      \/ /\ ~same
         /\ probe'.pass = probe.pass /\ probe'.fail = probe.fail + 1
  BY <1>3, <1>4 DEF q, p, Fields
<1>7. First' = low
  BY <1>5 DEF First
<1>8. /\ best' = best /\ lwd' = lwd /\ engine' = engine /\ moved' = moved
      /\ \A u, i : Agrees(u, i)' <=> Agrees(u, i)
  BY ViewsStay
<1>9. \/ /\ left = {} /\ probe'.step = "reference" /\ probe'.height = h + 1 /\ h < top
      \/ /\ left = {} /\ probe'.step = "summary" /\ probe'.height = h /\ h = top
      \/ /\ left = {"engine"} /\ probe'.step = "engine" /\ probe'.height = h
         /\ v = "rpc" /\ "engine" \in probe.with
  <2>1. left = {} \/ (left = {"engine"} /\ v = "rpc" /\ "engine" \in probe.with)
    BY <1>1
  <2>2. h < top \/ (h = top /\ ~(h < top))
    BY <1>1, <1>2
  <2> QED
    BY <1>4, <1>5, <2>1, <2>2 DEF q, p
<1>10. sofar \in Nat /\ probe'.pass + probe'.fail = sofar + 1
       /\ probe'.pass \in Nat /\ probe'.fail \in Nat
  <2> DEFINE a == probe.pass
             b == probe.fail
  <2>1. a \in Nat /\ b \in Nat
    BY <1>1
  <2> HIDE DEF a, b
  <2>2. a + b \in Nat /\ (a + 1) + b = a + b + 1 /\ a + (b + 1) = a + b + 1
        /\ a + 1 \in Nat /\ b + 1 \in Nat
    BY <2>1
  <2> QED
    BY <1>6, <2>1, <2>2 DEF a, b
<1>11. /\ k \in {0, 1, 2} /\ d \in Int
       /\ v = "rpc" /\ left = {} => k = 1
       /\ left = {"engine"} => k = 2
  <2>1. h \in Int /\ low \in Int
    BY <1>1, <1>2
  <2>2. d \in Int
    BY <2>1
  <2>3. \/ probe.with = {} /\ k = 0
        \/ probe.with = {"rpc"} /\ k = 1
        \/ probe.with = {"engine"} /\ k = 1
        \/ probe.with = {"rpc", "engine"} /\ k = 2
    BY <1>1, ViewCount
  <2>4. v \in probe.with /\ (v = "rpc" \/ v = "engine")
        /\ (v = "rpc" => left = probe.with \ {"rpc"})
        /\ (v = "engine" => left = {})
    OBVIOUS
  <2>5. k \in {0, 1, 2}
    BY <2>3
  <2> HIDE DEF k
  <2>6. ASSUME v = "rpc", left = {} PROVE k = 1
    BY <2>3, <2>4, <2>6
  <2>7. ASSUME left = {"engine"} PROVE k = 2
    <3>1. v = "rpc" /\ "engine" \in probe.with
      BY <2>4, <2>7
    <3> QED
      BY <2>3, <2>4, <3>1
  <2> QED
    BY <2>2, <2>5, <2>6, <2>7
<1> HIDE DEF k, h, low, top, sofar, d
<1>12. probe'.height \in low .. top
  <2> DEFINE hn == probe'.height
  <2>1. hn = h \/ (hn = h + 1 /\ h < top)
    BY <1>9
  <2> HIDE DEF hn
  <2>2. hn \in low .. top
    BY <1>1, <1>2, <2>1
  <2> QED
    BY <2>2 DEF hn
<1>13. Locals'
  <2>1. /\ probe'.step \in {"reference", "summary", "engine"}
        /\ probe'.step = "engine" => "engine" \in probe.with
    BY <1>9
  <2> QED
    BY <1>1, <1>5, <1>7, <1>10, <1>12, <2>1 DEF Locals, Running, Comparing
<1>14. /\ d * k \in Int /\ (d + 1) * k = d * k + k
       /\ probe.step # "engine" => sofar = d * k
       /\ probe.step = "engine" => sofar = d * k + k - 1
       /\ d + 1 = (h + 1) - low /\ d + 1 = h - low + 1 /\ d = h - low
  <2>1. h \in Int /\ low \in Int
    BY <1>1, <1>2
  <2>2. d + 1 = (h + 1) - low /\ d + 1 = h - low + 1 /\ d = h - low
    BY <2>1 DEF d
  <2> QED
    BY <1>1, <1>11, <2>2, OneMore
<1>15. /\ left = {} => sofar + 1 = (d + 1) * k
       /\ left = {"engine"} => sofar + 1 = d * k + k - 1
  <2> DEFINE m == d * k
             n == (d + 1) * k
  <2>1. /\ m \in Int /\ n = m + k /\ k \in Int /\ sofar \in Int
        /\ probe.step # "engine" => sofar = m
        /\ probe.step = "engine" => sofar = m + k - 1
    BY <1>10, <1>11, <1>14
  <2>2. \/ v = "rpc" /\ probe.step # "engine"
        \/ v = "engine" /\ probe.step = "engine" /\ left # {"engine"}
    OBVIOUS
  <2>3. (v = "rpc" /\ left = {} => k = 1) /\ (left = {"engine"} => k = 2)
    BY <1>11
  <2> HIDE DEF m, n
  <2>4. ASSUME left = {} PROVE sofar + 1 = n
    BY <2>1, <2>2, <2>3, <2>4
  <2>5. ASSUME left = {"engine"} PROVE sofar + 1 = m + k - 1
    BY <2>1, <2>2, <2>3, <2>5
  <2> QED
    BY <2>4, <2>5 DEF m, n
<1>16. Counted'
  <2>1. CASE probe'.step = "reference"
    <3>1. probe'.pass + probe'.fail = (probe'.height - low) * k
      <4>1. probe'.height = h + 1 /\ left = {}
        BY <1>9, <2>1
      <4> QED
        BY <1>10, <1>14, <1>15, <4>1
    <3> QED
      BY <1>1, <1>5, <1>7, <2>1, <3>1 DEF Counted, Comparing, k, top
  <2>2. CASE probe'.step = "summary"
    <3>1. probe'.height = top /\ probe'.pass + probe'.fail = (top - low + 1) * k
      <4>1. probe'.height = h /\ h = top /\ left = {}
        BY <1>9, <2>2
      <4> QED
        BY <1>10, <1>14, <1>15, <4>1
    <3> QED
      BY <1>1, <1>5, <1>7, <2>2, <3>1 DEF Counted, Comparing, k, top
  <2>3. CASE probe'.step = "engine"
    <3>1. probe'.pass + probe'.fail = (probe'.height - low) * k + k - 1
      <4>1. probe'.height = h /\ left = {"engine"}
        BY <1>9, <2>3
      <4> QED
        BY <1>10, <1>14, <1>15, <4>1
    <3> QED
      BY <1>1, <1>5, <1>7, <2>3, <3>1 DEF Counted, Comparing, k, top
  <2> QED
    BY <1>9, <2>1, <2>2, <2>3
<1>17. AsSeen'
  BY <1>5, <1>8, <1>9 DEF QInv, AsSeen, Comparing, h, top
<1>18. ASSUME NEW u \in {"rpc", "engine"}, NEW i \in Nat, Done(u, i)', ~(u = v /\ i = h)
       PROVE  Done(u, i)
  <2>1. \A j \in Nat : /\ j \in low .. (h + 1) - 1 => j \in low .. h - 1 \/ j = h
                       /\ j \in low .. h => j \in low .. h - 1 \/ j = h
    BY <1>1, <1>2
  <2>2. /\ u \in probe.with
        /\ i \in low .. h - 1 \/ (i = h /\ (left = {} \/ u = "rpc"))
    BY <1>1, <1>5, <1>7, <1>9, <1>18, <2>1 DEF Done, Comparing, Window, First, h, top, low
  <2>3. CASE i \in low .. h - 1
    BY <2>2, <2>3 DEF Done, Comparing, h, low
  <2>4. CASE i = h
    <3>1. u # v /\ (left = {} \/ u = "rpc")
      BY <1>1, <1>2, <1>18, <2>2, <2>4
    <3>2. u = "rpc" /\ probe.step = "engine"
      BY <1>1, <1>9, <2>2, <3>1
    <3> QED
      BY <2>2, <2>4, <3>2 DEF Done, h
  <2> QED
    BY <2>2, <2>3, <2>4
<1>19. JudgedTruly'
  <2> SUFFICES ASSUME ~moved
               PROVE  /\ probe'.fail = 0 =>
                           \A u \in {"rpc", "engine"}, i \in Nat : Done(u, i)' => Agrees(u, i)
                      /\ probe'.fail > 0 =>
                           \E u \in probe.with, i \in Window : ~Agrees(u, i)
    BY <1>5, <1>7, <1>8 DEF JudgedTruly, Window, First, top
  <2>1. ASSUME probe'.fail = 0, NEW u \in {"rpc", "engine"}, NEW i \in Nat, Done(u, i)'
        PROVE  Agrees(u, i)
    <3>1. probe.fail = 0 /\ same
      BY <1>1, <1>6, <2>1
    <3>2. CASE u = v /\ i = h
      BY <3>1, <3>2 DEF h
    <3>3. CASE ~(u = v /\ i = h)
      BY <1>1, <1>18, <2>1, <3>1, <3>3 DEF QInv, JudgedTruly, top
    <3> QED
      BY <3>2, <3>3
  <2>2. ASSUME probe'.fail > 0
        PROVE  \E u \in probe.with, i \in Window : ~Agrees(u, i)
    <3>1. CASE ~same
      <4>1. h \in Window
        BY <1>1 DEF Window, First, h, low, top
      <4> QED
        BY <2>2, <3>1, <4>1 DEF h
    <3>2. CASE same
      <4>1. probe.fail > 0
        BY <1>6, <2>2, <3>2
      <4> QED
        BY <1>1, <2>2, <4>1 DEF QInv, JudgedTruly, top
    <3> QED
      BY <3>1, <3>2
  <2> QED
    BY <2>1, <2>2
<1> QED
  BY <1>5, <1>8, <1>13, <1>16, <1>17, <1>19 DEF QInv, ProbeRecord

(* What the parser makes of the node's block, where nothing has moved.     *)
LEMMA RpcStep ==
  ASSUME QInv, FetchSizes \/ FetchVerbose \/ NoVerbose
  PROVE  QInv'
<1> DEFINE b == BlockAt(best, probe.height)
<1>1. /\ probe.step \in {"treestate", "verbose"} /\ UNCHANGED <<views, moved>>
      /\ \E sizes : /\ Encoded(sizes)
                    /\ sizes \in {TreeSizesFromTreestate(TreestateReply(b)),
                                  TreeSizesFromGetblock(TreesReply(b)), ZeroSizes}
  BY DEF FetchSizes, FetchVerbose, NoVerbose
<1>2. PICK sizes : /\ Encoded(sizes)
                   /\ sizes \in {TreeSizesFromTreestate(TreestateReply(b)),
                                 TreeSizesFromGetblock(TreesReply(b)), ZeroSizes}
  BY <1>1
<1> DEFINE ours == [block |-> probe.block, sizes |-> sizes]
<1>3. "rpc" \in probe.with /\ probe.tip # None /\ probe.height \in Nat
  <2>1. /\ "rpc" \in probe.with /\ probe.tip # None /\ probe.tip \in Nat /\ probe.n \in Nat
        /\ probe.height \in First .. probe.tip
    BY <1>1 DEF QInv, Locals, Running, Comparing
  <2>2. First \in 0 .. probe.tip
    BY <2>1, StartFacts DEF First
  <2> QED
    BY <2>1, <2>2
<1>4. ASSUME ~moved
      PROVE  /\ probe.height <= Height(best) /\ probe.block = b
             /\ probe.reference = [block |-> BlockAt(lwd, probe.height),
                                   sizes |-> TreeSize[BlockAt(lwd, probe.height)]]
  BY <1>1, <1>3, <1>4 DEF QInv, AsSeen, Comparing
<1>5. ASSUME ~moved
      PROVE  SameCompact(ours, probe.reference) <=> Agrees("rpc", probe.height)
  <2>1. b \in Block
    BY <1>3, <1>4, <1>5, BlockAtIsBlock DEF QInv
  <2>2. SizesAgree(sizes, TreeSize[b])
    BY <1>2, <2>1, KnownSizesAreTrue
  <2>3. SameCompact(ours, probe.reference) <=>
          b = BlockAt(lwd, probe.height) /\ SizesAgree(sizes, TreeSize[BlockAt(lwd, probe.height)])
    BY <1>4, <1>5 DEF SameCompact
  <2> QED
    BY <1>4, <1>5, <2>2, <2>3 DEF Agrees, NodeAgrees
<1>6. probe' = Onward(Judged(ours), probe.with \ {"rpc"})
  BY <1>2 DEF Encoded
<1> HIDE DEF ours
<1> QED
  BY <1>1, <1>3, <1>5, <1>6, JudgedStep

(* The engine's row. *)
LEMMA FetchEngineStep ==
  ASSUME QInv, FetchEngine
  PROVE  QInv'
<1> DEFINE b == BlockAt(engine, probe.height)
           ours == [block |-> b, sizes |-> EngineSizes[b]]
<1>1. /\ probe.step = "engine" /\ UNCHANGED <<views, moved>>
      /\ probe.height <= Height(engine)
      /\ probe' = Onward(Judged(ours), {})
  <2>1. Height(engine) \in Nat
    BY HeightIsNumber DEF QInv
  <2> QED
    BY <2>1 DEF FetchEngine
<1>2. "engine" \in probe.with /\ probe.tip # None
  BY <1>1 DEF QInv, Locals, Running, Comparing
<1>3. ASSUME ~moved
      PROVE  probe.reference = [block |-> BlockAt(lwd, probe.height),
                                sizes |-> TreeSize[BlockAt(lwd, probe.height)]]
  BY <1>1, <1>2, <1>3 DEF QInv, AsSeen, Comparing
<1>4. ASSUME ~moved
      PROVE  SameCompact(ours, probe.reference) <=> Agrees("engine", probe.height)
  <2>1. SameCompact(ours, probe.reference) <=>
          /\ b = BlockAt(lwd, probe.height)
          /\ SizesAgree(EngineSizes[b], TreeSize[BlockAt(lwd, probe.height)])
    BY <1>3, <1>4 DEF SameCompact
  <2> QED
    BY <1>1, <2>1 DEF Agrees, EngineAgrees
<1> HIDE DEF ours
<1> QED
  BY <1>1, <1>2, <1>4, JudgedStep

(* The end: only after the last height, with a view and without a mismatch *)
(* is it exit code 0.                                                      *)
LEMMA ExitStep ==
  ASSUME QInv, Abort \/ Summary
  PROVE  QInv'
<1> DEFINE k == Cardinality(probe.with)
<1>1. PICK code \in {0, 1, 2} :
        /\ Exit(code) /\ UNCHANGED <<views, moved>>
        /\ code = 0 => probe.step = "summary" /\ probe.with # {} /\ ~(probe.fail > 0)
        /\ probe.step \in {"connect"} \cup Running
  BY DEF Abort, Summary, Running, Comparing
<1>2. /\ probe'.step = "done" /\ probe'.exit = code /\ DOMAIN probe' = Fields
      /\ probe'.with = probe.with /\ probe'.n = probe.n /\ probe'.tip = probe.tip
      /\ probe'.pass = probe.pass /\ probe'.fail = probe.fail
      /\ probe'.reference = probe.reference /\ probe'.height = probe.height
  BY <1>1 DEF Exit, QInv, ProbeRecord, Fields
<1>3. First' = First
  BY <1>2 DEF First
<1>4. /\ best' = best /\ lwd' = lwd /\ engine' = engine /\ moved' = moved
      /\ \A v, h : Agrees(v, h)' <=> Agrees(v, h)
  BY <1>1, ViewsStay
<1>5. Locals'
  BY <1>2 DEF QInv, Locals, Running, Comparing
<1>6. Counted'
  <2>1. ASSUME code = 0
        PROVE  /\ probe.tip # None /\ k > 0 /\ probe.fail = 0
               /\ probe.pass = (probe.tip - First + 1) * k
    <3>1. /\ probe.step = "summary" /\ probe.with # {} /\ ~(probe.fail > 0)
          /\ probe.with \in SUBSET {"rpc", "engine"} /\ probe.fail \in Nat /\ probe.pass \in Nat
          /\ probe.tip # None
          /\ probe.pass + probe.fail = (probe.tip - First + 1) * k
      BY <1>1, <2>1 DEF QInv, Locals, Counted, Running
    <3>2. k > 0
      BY <3>1, ViewCount
    <3>3. probe.fail = 0
      BY <3>1
    <3>4. probe.pass + probe.fail = probe.pass
      BY <3>1, <3>3
    <3> QED
      BY <3>1, <3>2, <3>3, <3>4
  <2>2. probe.tip = None => probe.fail = 0
    BY DEF QInv, Counted
  <2> QED
    BY <1>2, <1>3, <2>1, <2>2 DEF Counted, Comparing
<1>7. AsSeen'
  BY <1>2, <1>4 DEF QInv, AsSeen, Comparing
<1>8. ASSUME NEW v \in {"rpc", "engine"}, NEW h \in Nat, Done(v, h)'
      PROVE  Done(v, h)
  BY <1>1, <1>2, <1>3, <1>8 DEF Done, Comparing, Window, First
<1>9. JudgedTruly'
  BY <1>2, <1>3, <1>4, <1>8 DEF QInv, JudgedTruly, Window, First
<1> QED
  BY <1>2, <1>4, <1>5, <1>6, <1>7, <1>9 DEF QInv, ProbeRecord

LEMMA StepQInv ==
  ASSUME QInv, [ProbeNext]_probeVars
  PROVE  QInv'
<1>1. CASE UNCHANGED probeVars
  BY <1>1 DEF probeVars, QInv, ProbeRecord, Locals, Counted, AsSeen, JudgedTruly, First,
              Done, Window, Agrees, EngineAgrees, NodeAgrees
<1>2. CASE ReadTip
  BY <1>2, ReadTipStep
<1>3. CASE FetchReference
  BY <1>3, FetchReferenceStep
<1>4. CASE FetchBlock \/ NoTreestate
  BY <1>4, FetchBlockStep
<1>5. CASE FetchSizes \/ FetchVerbose \/ NoVerbose
  BY <1>5, RpcStep
<1>6. CASE FetchEngine
  BY <1>6, FetchEngineStep
<1>7. CASE Abort \/ Summary
  BY <1>7, ExitStep
<1>8. CASE ViewsMove
  BY <1>8, ViewsMoveStep
<1> QED
  BY <1>1, <1>2, <1>3, <1>4, <1>5, <1>6, <1>7, <1>8 DEF ProbeNext
-----------------------------------------------------------------------------
(* The theorems. *)

(* The counts of main are those of the heights it has been through, and,   *)
(* while nothing moves, no judgement failed exactly where the views agree. *)
THEOREM ProbeAlways == ProbeSpec => []QInv
  BY InitQInv, StepQInv, PTL DEF ProbeSpec

LEMMA SuccessFromQInv ==
  ASSUME QInv
  PROVE  SuccessMeansParity
<1> SUFFICES ASSUME probe.exit = 0
             PROVE  /\ probe.pass > 0
                    /\ probe.pass = Cardinality(Window) * Cardinality(probe.with)
                    /\ Cardinality(Window) = Min({Max({probe.n, 1}), probe.tip + 1})
                    /\ ~moved =>
                         \A h \in Window :
                           /\ "engine" \in probe.with => EngineAgrees(h)
                           /\ "rpc" \in probe.with => NodeAgrees(h)
  BY DEF SuccessMeansParity
<1> DEFINE k == Cardinality(probe.with)
           tip == probe.tip
           low == First
           pass == probe.pass
<1>1. /\ tip \in Nat /\ tip # None /\ k > 0 /\ probe.fail = 0 /\ probe.n \in Nat
      /\ probe.with \in SUBSET {"rpc", "engine"}
      /\ pass = (tip - low + 1) * k
  BY DEF QInv, Locals, Counted
<1>2. /\ low \in 0 .. tip
      /\ tip - low + 1 = Min({Max({probe.n, 1}), tip + 1})
  BY <1>1, StartFacts DEF First
<1>3. k \in {1, 2}
  BY <1>1, ViewCount
<1>4. Window = low .. tip
  BY DEF Window, First
<1> HIDE DEF k, tip, low, pass
<1>5. Cardinality(Window) = tip - low + 1
  <2>1. low \in Int /\ tip \in Int /\ ~(low > tip)
    BY <1>1, <1>2
  <2> QED
    BY <1>4, <2>1, FS_Interval
<1>6. pass > 0
  <2>1. tip - low + 1 \in Nat \ {0}
    BY <1>1, <1>2
  <2> QED
    BY <1>1, <1>3, <2>1
<1>7. ASSUME ~moved, NEW h \in Window
      PROVE  /\ "engine" \in probe.with => EngineAgrees(h)
             /\ "rpc" \in probe.with => NodeAgrees(h)
  <2>1. h \in Nat
    BY <1>1, <1>2, <1>4
  <2>2. \A v \in {"rpc", "engine"} : v \in probe.with => Agrees(v, h)
    BY <1>1, <1>7, <2>1 DEF QInv, JudgedTruly, Done, tip
  <2> QED
    BY <2>2 DEF Agrees
<1> QED
  BY <1>1, <1>2, <1>5, <1>6, <1>7 DEF k, tip, pass

(* Exit code 0 is given only when every height of the window was compared  *)
(* with every configured view, at least once, and no contradiction found.  *)
THEOREM SuccessIsParity == ProbeSpec => []SuccessMeansParity
  BY ProbeAlways, SuccessFromQInv, PTL

(* A mismatch that main counts is one, whatever the node says of sizes.    *)
THEOREM FailureIsDifference == ProbeSpec => []FailureMeansDifference
<1>1. QInv => FailureMeansDifference
  <2> SUFFICES ASSUME QInv, probe.fail > 0, ~moved
               PROVE  \E h \in Window : \/ "engine" \in probe.with /\ ~EngineAgrees(h)
                                        \/ "rpc" \in probe.with /\ ~NodeAgrees(h)
    BY DEF FailureMeansDifference
  <2>1. probe.tip # None /\ probe.with \in SUBSET {"rpc", "engine"}
    BY DEF QInv, Counted, Locals
  <2>2. \E v \in probe.with, h \in Window : ~Agrees(v, h)
    BY <2>1 DEF QInv, JudgedTruly
  <2> QED
    BY <2>1, <2>2 DEF Agrees
<1> QED
  BY <1>1, ProbeAlways, PTL
=============================================================================
