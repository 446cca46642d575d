----------------------------- MODULE ServeProofs -----------------------------
(***************************************************************************)
(* Proofs about Serve, for every forest of blocks, every set of requests,  *)
(* every placement of the subtrees and every interleaving of a call with   *)
(* the ingest task, the node and the probe of main.                        *)
(***************************************************************************)
EXTENDS Serve, IngestProofs, SequenceFacts, FiniteSetTheorems

CallSteps ==
  {"idle", "start", "hash", "indexed", "count", "named", "treestate", "ends",
   "done"}

Statuses == {"ok", "unavailable", "invalid_argument", "not_found", "internal"}

RootType == [height : Nat, block : Block \cup {None}]

ReplyType ==
  [status : Statuses, height : Nat \cup {None}, block : Block \cup {None},
   network : Block \cup {None}]

CallShape ==
  call \in [request : Requests \cup {None}, step : CallSteps,
            height : Nat \cup {None}, network : Block \cup {None},
            ends : Seq(Nat), roots : Seq(RootType),
            reply : ReplyType \cup {None}, tip : Block \cup {None},
            pruned : BOOLEAN, moved : BOOLEAN]

(* Which locals a step of a handler can rely on.  Calls are only there     *)
(* while the server is.                                                    *)
CallOK ==
  /\ call.step = "idle" => call = NoCall
  /\ call.step # "idle" => Up /\ call.request \in Requests
  /\ call.step = "start" => call.roots = << >>
  /\ call.step = "hash" => call.request.kind = "latest" /\ call.height \in Nat
  /\ call.step \in {"named", "treestate"} =>
       /\ call.request.kind \in {"treestate", "latesttreestate"}
       /\ call.height \in Nat
  /\ call.step = "ends" =>
       call.request.kind = "subtrees" /\ call.request.pool \in SubtreePools
  /\ call.step # "done" => call.reply = None
  /\ call.step = "done" => call.reply \in ReplyType /\ call.ends = << >>

NodeChainOK == nodeChain \in Block \cup {None}

(* The height get_latest_block took still has its row, or a prune came.    *)
LatestOK ==
  /\ call.step = "hash" => HasRow(call.height) \/ call.pruned
  /\ LatestNamesABlock

(* roots and then ends are what ends on the chain to b, from index start.  *)
Lists(subtrees, start, roots, ends, b) ==
  /\ \A i \in 1 .. Len(roots) :
       /\ start + i \in 1 .. Len(subtrees)
       /\ roots[i].height = subtrees[start + i]
       /\ roots[i].block \in {None, BlockAt(b, roots[i].height)}
  /\ \A j \in 1 .. Len(ends) :
       /\ start + Len(roots) + j \in 1 .. Len(subtrees)
       /\ ends[j] = subtrees[start + Len(roots) + j]

(* total roots from index start are all there are up to known, or as many  *)
(* as were asked for.                                                      *)
Complete(known, start, max, total) ==
  /\ (max = total /\ max # 0) \/ known <= start + total
  /\ max # 0 => total <= max

(* What a call for subtrees has to show for at any later step. *)
Listed ==
  LET asked == call.request
  IN  /\ asked.pool \in SubtreePools
      /\ Lists(SubtreeEnds(asked.pool, best), asked.start, call.roots, call.ends, best)
      /\ Complete(Len(SubtreeEnds(asked.pool, call.tip)), asked.start, asked.max,
                  Len(call.roots) + Len(call.ends))

(* While the node stays on its chain, the subtrees listed so far are those *)
(* of the chain it is on by now.                                           *)
RootsOK ==
  call.step # "idle" /\ call.request.kind = "subtrees" /\ ~call.moved =>
    /\ call.tip \in Block
    /\ OnChain(call.tip, best)
    /\ call.step = "ends" \/ Replied("subtrees") => Listed

CInv == CallShape /\ CallOK /\ NodeChainOK /\ LatestOK /\ RootsOK
-----------------------------------------------------------------------------
(* Chains and the blocks on them. *)

LEMMA OnChainFacts ==
  ASSUME NEW b \in Block, NEW c \in Block, OnChain(b, c)
  PROVE  /\ Height(b) <= Height(c)
         /\ \A h \in 0 .. Height(b) : BlockAt(c, h) = BlockAt(b, h)
<1>1. Height(b) \in Nat /\ Height(c) \in Nat /\ Height(b) <= Height(c)
  BY HeightFacts DEF OnChain
<1>2. Chain[c] \in Seq(Block) /\ Len(Chain[c]) > 0 /\ Height(c) = Len(Chain[c]) - 1
  BY ChainAssumption DEF Height
<1>3. Height(b) + 1 \in 1 .. Len(Chain[c])
  BY <1>1, <1>2
<1>4. Chain[c][Height(b) + 1] = b
  BY DEF OnChain, BlockAt
<1>5. ASSUME NEW h \in 0 .. Height(b) PROVE BlockAt(c, h) = BlockAt(b, h)
  <2>1. h + 1 \in 1 .. Height(b) + 1
    BY <1>1
  <2>2. Chain[b][h + 1] = Chain[c][h + 1]
    BY <1>3, <1>4, <2>1, ChainAssumption
  <2> QED
    BY <2>2 DEF BlockAt
<1> QED
  BY <1>1, <1>5

LEMMA OnChainTransitive ==
  ASSUME NEW a \in Block, NEW b \in Block, NEW c \in Block,
         OnChain(a, b), OnChain(b, c)
  PROVE  OnChain(a, c)
<1>1. /\ Height(a) \in Nat /\ Height(b) \in Nat /\ Height(c) \in Nat
      /\ Height(a) <= Height(b) /\ Height(b) <= Height(c)
  BY HeightFacts, OnChainFacts
<1>2. BlockAt(c, Height(a)) = BlockAt(b, Height(a))
  BY <1>1, OnChainFacts
<1> QED
  BY <1>1, <1>2 DEF OnChain

LEMMA OnChainReflexive ==
  ASSUME NEW b \in Block
  PROVE  OnChain(b, b)
  BY HeightFacts, ChainAssumption DEF OnChain, BlockAt, Height
-----------------------------------------------------------------------------
(* The members of a finite set of numbers in order. *)

Rank(S, h) == Cardinality({k \in S : k < h})

LEMMA RankFacts ==
  ASSUME NEW S \in SUBSET Nat, IsFiniteSet(S)
  PROVE  /\ \A h \in S : Rank(S, h) \in 0 .. Cardinality(S) - 1
         /\ \A h, g \in S : h < g => Rank(S, h) < Rank(S, g)
<1> DEFINE Below(h) == {k \in S : k < h}
<1>1. \A h : /\ IsFiniteSet(Below(h))
             /\ Cardinality(Below(h)) \in Nat
             /\ Below(h) \in SUBSET S
  BY FS_Subset, FS_CardinalityType
<1>2. Cardinality(S) \in Nat
  BY FS_CardinalityType
<1>3. ASSUME NEW h \in S PROVE Rank(S, h) \in 0 .. Cardinality(S) - 1
  <2>1. h \in S \ Below(h)
    OBVIOUS
  <2>2. Cardinality(Below(h)) <= Cardinality(S) /\ Cardinality(Below(h)) # Cardinality(S)
    BY <1>1, <2>1, FS_Subset
  <2> QED
    BY <1>1, <1>2, <2>2 DEF Rank
<1>4. ASSUME NEW h \in S, NEW g \in S, h < g PROVE Rank(S, h) < Rank(S, g)
  <2>1. Below(h) \in SUBSET Below(g) /\ h \in Below(g) \ Below(h)
    <3>1. h \in Nat /\ g \in Nat /\ \A k \in S : k \in Nat
      OBVIOUS
    <3>2. \A k \in S : k < h => k < g
      BY <1>4, <3>1
    <3>3. ~(h < h)
      BY <3>1
    <3> QED
      BY <1>4, <3>2, <3>3
  <2>2. /\ Cardinality(Below(h)) <= Cardinality(Below(g))
        /\ Cardinality(Below(h)) # Cardinality(Below(g))
    BY <1>1, <2>1, FS_Subset
  <2> QED
    BY <1>1, <2>2 DEF Rank
<1> QED
  BY <1>3, <1>4

(* Different members have different ranks, so that every rank is taken. *)
LEMMA RankOnto ==
  ASSUME NEW S \in SUBSET Nat, IsFiniteSet(S), NEW r \in 0 .. Cardinality(S) - 1
  PROVE  \E h \in S : Rank(S, h) = r
<1> DEFINE T == 0 .. Cardinality(S) - 1
           f == [h \in S |-> Rank(S, h)]
<1>1. Cardinality(S) \in Nat
  BY FS_CardinalityType
<1>2. IsFiniteSet(T) /\ Cardinality(T) = Cardinality(S)
  BY <1>1, FS_Interval
<1>3. f \in Injection(S, T)
  <2>1. f \in [S -> T]
    BY RankFacts
  <2>2. ASSUME NEW h \in S, NEW g \in S, f[h] = f[g] PROVE h = g
    <3>1. h \in Nat /\ g \in Nat /\ Rank(S, h) \in Nat /\ Rank(S, g) \in Nat
      BY RankFacts
    <3>2. ~(h < g) /\ ~(g < h)
      BY <2>2, <3>1, RankFacts
    <3> QED
      BY <3>1, <3>2
  <2> QED
    BY <2>1, <2>2 DEF Injection, IsInjective
<1>4. f \in Surjection(S, T)
  BY <1>2, <1>3, FS_Injection
<1>5. \E h \in S : f[h] = r
  BY <1>4 DEF Surjection
<1> QED
  BY <1>5

LEMMA AscendingFacts ==
  ASSUME NEW S \in SUBSET Nat, IsFiniteSet(S)
  PROVE  /\ Ascending(S) \in Seq(S)
         /\ Len(Ascending(S)) = Cardinality(S)
         /\ Len(Ascending(S)) \in Nat
         /\ \A i \in 1 .. Len(Ascending(S)) :
              Ascending(S)[i] \in S /\ Rank(S, Ascending(S)[i]) = i - 1
<1> DEFINE n == Cardinality(S)
           list == Ascending(S)
<1>1. n \in Nat
  BY FS_CardinalityType
<1>2. list = [i \in 1 .. n |-> CHOOSE h \in S : Rank(S, h) = i - 1]
  BY DEF Ascending, Rank
<1>3. ASSUME NEW i \in 1 .. n PROVE list[i] \in S /\ Rank(S, list[i]) = i - 1
  <2>1. i - 1 \in 0 .. n - 1
    BY <1>1
  <2>2. \E h \in S : Rank(S, h) = i - 1
    BY <2>1, RankOnto
  <2>3. list[i] = CHOOSE h \in S : Rank(S, h) = i - 1
    BY <1>2
  <2> QED
    BY <2>2, <2>3
<1> HIDE DEF list
<1>4. list \in [1 .. n -> S]
  BY <1>2, <1>3
<1>5. list \in Seq(S) /\ Len(list) = n
  BY <1>1, <1>4
<1> QED
  BY <1>1, <1>3, <1>5 DEF list

(* The members up to a bound come first. *)
LEMMA AscendingPrefix ==
  ASSUME NEW R \in SUBSET Nat, IsFiniteSet(R), NEW m \in Nat, NEW S,
         S = {k \in R : k <= m}
  PROVE  /\ Len(Ascending(S)) <= Len(Ascending(R))
         /\ \A i \in 1 .. Len(Ascending(S)) : Ascending(R)[i] = Ascending(S)[i]
<1>1. S \in SUBSET R /\ S \in SUBSET Nat /\ IsFiniteSet(S)
  BY FS_Subset
<1>2. Cardinality(S) <= Cardinality(R)
  BY <1>1, FS_Subset
<1>3. ASSUME NEW i \in 1 .. Len(Ascending(S))
      PROVE  Ascending(R)[i] = Ascending(S)[i]
  <2> DEFINE x == Ascending(S)[i]
             y == Ascending(R)[i]
  <2>1. x \in S /\ Rank(S, x) = i - 1
    BY <1>1, AscendingFacts
  <2>2. i \in 1 .. Len(Ascending(R))
    BY <1>1, <1>2, AscendingFacts
  <2>3. y \in R /\ Rank(R, y) = i - 1
    BY <2>2, AscendingFacts
  <2> HIDE DEF x, y
  <2>4. {k \in R : k < x} = {k \in S : k < x}
    <3>1. x \in Nat /\ x <= m /\ \A k \in R : k \in Nat
      BY <1>1, <2>1
    <3>2. \A k \in R : k < x => k \in S
      BY <3>1
    <3> QED
      BY <1>1, <3>2
  <2>5. Rank(R, x) = i - 1
    BY <2>1, <2>4 DEF Rank
  <2>6. x \in Nat /\ y \in Nat /\ x \in R
    BY <1>1, <2>1, <2>3
  <2>7. ~(x < y) /\ ~(y < x)
    BY <2>3, <2>5, <2>6, RankFacts
  <2> QED
    BY <2>6, <2>7 DEF x, y
<1> QED
  BY <1>1, <1>2, <1>3, AscendingFacts
-----------------------------------------------------------------------------
(* Subtree roots. *)

LEMMA EndHeightsFacts ==
  ASSUME NEW pool, NEW b \in Block
  PROVE  /\ EndHeights(pool, b) \in SUBSET Nat
         /\ EndHeights(pool, b) \subseteq 1 .. Height(b)
         /\ IsFiniteSet(EndHeights(pool, b))
<1>1. Height(b) \in Nat
  BY HeightFacts
<1>2. EndHeights(pool, b) \in SUBSET (1 .. Height(b))
  BY DEF EndHeights
<1>3. IsFiniteSet(1 .. Height(b))
  BY <1>1, FS_Interval
<1>4. \A h \in 1 .. Height(b) : h \in Nat
  BY <1>1
<1> QED
  BY <1>2, <1>3, <1>4, FS_Subset

LEMMA EndsFacts ==
  ASSUME NEW pool, NEW b \in Block
  PROVE  /\ SubtreeEnds(pool, b) \in Seq(Nat)
         /\ Len(SubtreeEnds(pool, b)) \in Nat
         /\ \A i \in 1 .. Len(SubtreeEnds(pool, b)) :
              SubtreeEnds(pool, b)[i] \in 0 .. Height(b)
<1> DEFINE S == EndHeights(pool, b)
<1>1. S \in SUBSET Nat /\ S \subseteq 1 .. Height(b) /\ IsFiniteSet(S)
  BY EndHeightsFacts
<1>2. /\ Ascending(S) \in Seq(S) /\ Len(Ascending(S)) \in Nat
      /\ \A i \in 1 .. Len(Ascending(S)) : Ascending(S)[i] \in S
  BY <1>1, AscendingFacts
<1>3. Ascending(S) \in Seq(Nat)
  BY <1>1, <1>2, SeqMonotonic
<1> QED
  BY <1>1, <1>2, <1>3, HeightFacts DEF SubtreeEnds

(* A chain that grows keeps its subtrees. *)
LEMMA EndsExtend ==
  ASSUME NEW pool, NEW b \in Block, NEW c \in Block, OnChain(b, c)
  PROVE  /\ Len(SubtreeEnds(pool, b)) <= Len(SubtreeEnds(pool, c))
         /\ \A i \in 1 .. Len(SubtreeEnds(pool, b)) :
              SubtreeEnds(pool, c)[i] = SubtreeEnds(pool, b)[i]
<1>1. Height(b) \in Nat /\ Height(c) \in Nat /\ Height(b) <= Height(c)
  BY HeightFacts, OnChainFacts
<1>2. \A h \in 1 .. Height(b) : BlockAt(c, h) = BlockAt(b, h)
  BY <1>1, OnChainFacts
<1>3. EndHeights(pool, b) = {h \in EndHeights(pool, c) : h <= Height(b)}
  BY <1>1, <1>2 DEF EndHeights
<1> QED
  BY <1>1, <1>3, EndHeightsFacts, AscendingPrefix DEF SubtreeEnds

(* The page of a request: from its start on, and no more than it asked for.*)
LEMMA PageFacts ==
  ASSUME NEW b \in Block, NEW request \in Requests, request.kind = "subtrees"
  PROVE  LET ends == SubtreeEnds(request.pool, b)
         IN  /\ Page(request, b) \in Seq(Nat)
             /\ Lists(ends, request.start, << >>, Page(request, b), b)
             /\ Complete(Len(ends), request.start, request.max, Len(Page(request, b)))
<1> DEFINE ends == SubtreeEnds(request.pool, b)
           n == Len(ends)
           start == request.start
           max == request.max
           from == SubSeq(ends, start + 1, n)
           page == Page(request, b)
<1>1. start \in Nat /\ max \in Nat
  BY RequestAssumption
<1>2. n \in Nat /\ \A i \in 1 .. n : ends[i] \in Nat
  BY EndsFacts
<1>3. page = IF max = 0 THEN from ELSE SubSeq(from, 1, Min({max, Len(from)}))
  BY DEF Page, SubtreesFrom, SubtreesUpTo
<1> HIDE DEF ends, start, max, n, page
<1>4. /\ from \in Seq(Nat)
      /\ Len(from) = IF start + 1 <= n THEN n - start ELSE 0
      /\ \A j \in 1 .. n - start : from[j] = ends[start + j]
  <2>1. \A i \in start + 1 .. n : ends[i] \in Nat
    BY <1>1, <1>2
  <2>2. /\ from \in Seq(Nat)
        /\ Len(from) = IF start + 1 <= n THEN n - (start + 1) + 1 ELSE 0
        /\ \A j \in 1 .. n - (start + 1) + 1 : from[j] = ends[(start + 1) + j - 1]
    BY <1>1, <1>2, <2>1, SubSeqProperties
  <2>3. ASSUME NEW j \in 1 .. n - start PROVE from[j] = ends[start + j]
    <3>1. j \in 1 .. n - (start + 1) + 1 /\ (start + 1) + j - 1 = start + j
      BY <1>1, <1>2
    <3> QED
      BY <2>2, <3>1
  <2> HIDE DEF from
  <2> QED
    BY <1>1, <1>2, <2>2, <2>3
<1> HIDE DEF from
<1> DEFINE k == Len(from)
           l == Len(page)
<1>5. /\ k \in Nat
      /\ start + 1 <= n => k = n - start
      /\ start + 1 > n => k = 0
      /\ \A j \in 1 .. k : from[j] \in Nat
  <2>1. k \in Nat /\ \A j \in 1 .. k : from[j] \in Nat
    BY <1>4, LenProperties, ElementOfSeq
  <2>2. k = IF start + 1 <= n THEN n - start ELSE 0
    BY <1>4
  <2> HIDE DEF k
  <2> QED
    BY <1>1, <1>2, <2>1, <2>2
<1>6. /\ page \in Seq(Nat)
      /\ l \in Nat /\ l <= k
      /\ \A j \in 1 .. l : page[j] = from[j]
      /\ max = 0 => l = k
      /\ max # 0 => l = max \/ l = k
      /\ max # 0 => l <= max
  <2>1. CASE max = 0
    <3>1. page = from
      BY <2>1, <1>3
    <3>2. l = k
      BY <3>1
    <3> HIDE DEF k, l
    <3> QED
      BY <2>1, <3>1, <3>2, <1>4, <1>5
  <2>2. CASE max # 0
    <3> DEFINE least == Min({max, k})
    <3>0. page = SubSeq(from, 1, least)
      BY <1>3, <2>2
    <3> HIDE DEF k
    <3>1. least = IF max >= k THEN k ELSE max
      <4>1. max \in Int /\ k \in Int
        BY <1>1, <1>5
      <4>2. Min({max, k}) = IF max >= k THEN k ELSE max
        BY <4>1, MaxOfPair
      <4> QED
        BY <4>2
    <3> HIDE DEF least
    <3>2. least \in Nat /\ least <= k
      BY <1>1, <1>5, <3>1
    <3>3. \A i \in 1 .. least : from[i] \in Nat
      BY <1>5, <3>2
    <3>4. /\ page \in Seq(Nat)
          /\ l = IF 1 <= least THEN least - 1 + 1 ELSE 0
          /\ \A i \in 1 .. least - 1 + 1 : page[i] = from[1 + i - 1]
      BY <3>0, <3>2, <3>3, SubSeqProperties
    <3> HIDE DEF l
    <3>5. ASSUME NEW i \in 1 .. least PROVE page[i] = from[i]
      <4>1. i \in 1 .. least - 1 + 1 /\ 1 + i - 1 = i
        BY <3>2
      <4> QED
        BY <3>4, <4>1
    <3>6. l = least
      BY <3>2, <3>4
    <3> QED
      BY <1>1, <1>5, <2>2, <3>1, <3>2, <3>4, <3>5, <3>6
  <2> QED
    BY <2>1, <2>2
<1>7. Lists(ends, start, << >>, page, b)
  <2>1. ASSUME NEW j \in 1 .. l
        PROVE  start + 0 + j \in 1 .. n /\ page[j] = ends[start + 0 + j]
    <3> HIDE DEF k, l
    <3>1. j \in 1 .. k /\ k = n - start
      BY <1>1, <1>2, <1>5, <1>6
    <3>2. start + 0 + j = start + j /\ start + j \in 1 .. n
      BY <1>1, <1>2, <3>1
    <3>3. page[j] = from[j] /\ from[j] = ends[start + j]
      BY <1>4, <1>6, <3>1
    <3> QED
      BY <3>2, <3>3
  <2>2. Len(<< >>) = 0
    BY EmptySeq
  <2> QED
    BY <2>1, <2>2 DEF Lists, n
<1>8. Complete(n, start, max, l)
  <2> HIDE DEF k, l
  <2> QED
    BY <1>1, <1>2, <1>5, <1>6 DEF Complete
<1> QED
  BY <1>6, <1>7, <1>8 DEF ends, start, max, n, page
-----------------------------------------------------------------------------
(* Steps of the ingest task and the node, as a call sees them. *)

(* The server stays up until the process stops. *)
LEMMA IngestSteps ==
  ASSUME Next
  PROVE  Up => pc' = "down" \/ Up'
<1>1. CASE NodeMoves
  BY <1>1 DEF NodeMoves, NodeMove, Up
<1>2. CASE ~NodeMoves
  BY <1>2
  DEF Next, IngestStep, Environment, Restart, Boot, BootFails, Poll,
      RecordTip, Prune, UpToDate, Plan, FetchHash, HeightGone, FetchRaw,
      RejectRaw, GenesisBase, StoredBase, NeedSeed, SeedTreestate,
      TreestateUnusable, SeedHash, SeedBlock, SeedFails, Put, MarkIndexed,
      Wake, PassFails, Crash, EndPass, Up
<1> QED
  BY <1>1, <1>2

(* What the ingest task and the node do to a call: nothing but history, or *)
(* they end it.                                                            *)
LEMMA MeanwhileFacts ==
  ASSUME CallShape, CallOK, IngestMeanwhile
  PROVE  /\ CallShape'
         /\ \/ call' = NoCall
            \/ /\ call.step # "idle" /\ pc' # "down"
               /\ call' = [call EXCEPT !.pruned = call'.pruned, !.moved = call'.moved]
               /\ call'.pruned = \/ call.pruned
                                 \/ /\ call.request.kind = "latest"
                                    /\ ~(DOMAIN rows \subseteq DOMAIN rows')
               /\ call'.moved = \/ call.moved
                                \/ /\ call.request.kind = "subtrees"
                                   /\ ~OnChain(best, best')
<1>1. CASE pc' = "down" \/ call.step = "idle"
  <2>1. call' = NoCall
    BY <1>1 DEF IngestMeanwhile
  <2> QED
    BY <2>1 DEF CallShape, NoCall, CallSteps
<1>2. CASE ~(pc' = "down" \/ call.step = "idle")
  <2> DEFINE p == \/ call.pruned
                  \/ /\ call.request.kind = "latest"
                     /\ ~(DOMAIN rows \subseteq DOMAIN rows')
             m == \/ call.moved
                  \/ /\ call.request.kind = "subtrees"
                     /\ ~OnChain(best, best')
  <2>1. call' = [call EXCEPT !.pruned = p, !.moved = m]
    BY <1>2 DEF IngestMeanwhile
  <2>2. p \in BOOLEAN /\ m \in BOOLEAN
    OBVIOUS
  <2> HIDE DEF p, m
  <2>3. CallShape' /\ call'.pruned = p /\ call'.moved = m
    BY <2>1, <2>2 DEF CallShape
  <2>4. call' = [call EXCEPT !.pruned = call'.pruned, !.moved = call'.moved]
    BY <2>1, <2>3
  <2> QED
    BY <1>2, <2>3, <2>4 DEF p, m
<1> QED
  BY <1>1, <1>2
-----------------------------------------------------------------------------
(* Steps of the handlers. *)

LEMMA AnswerFacts ==
  ASSUME CallShape, NEW reply \in ReplyType, Answer(reply)
  PROVE  /\ CallShape'
         /\ call'.request = call.request
         /\ call'.step = "done"
         /\ call'.reply = reply
         /\ call'.network = None
         /\ call'.ends = << >>
         /\ call'.roots = call.roots
         /\ call'.tip = call.tip
         /\ call'.pruned = call.pruned
         /\ call'.moved = call.moved
<1>1. call' = [request |-> call.request, step |-> "done", height |-> None,
               network |-> None, ends |-> << >>, roots |-> call.roots,
               reply |-> reply, tip |-> call.tip, pruned |-> call.pruned,
               moved |-> call.moved]
  BY DEF Answer, NoCall
<1>2. << >> \in Seq(Nat)
  BY EmptySeq
<1> QED
  BY <1>1, <1>2 DEF CallShape, CallSteps

LEMMA RefuseFacts ==
  ASSUME CallShape, NEW status \in Statuses, Refuse(status)
  PROVE  /\ Reply(status, None, None, None) \in ReplyType
         /\ Answer(Reply(status, None, None, None))
         /\ Reply(status, None, None, None).status = status
         /\ Reply(status, None, None, None).network = None
  BY DEF Refuse, Reply, ReplyType

LEMMA RefusePreserves ==
  ASSUME CInv, NEW status \in Statuses \ {"ok"}, Refuse(status),
         call.step # "idle", UNCHANGED <<vars, nodeChain>>
  PROVE  CInv'
<1> DEFINE reply == Reply(status, None, None, None)
<1>1. reply \in ReplyType /\ Answer(reply) /\ reply.status # "ok" /\ reply.network = None
  BY RefuseFacts DEF CInv
<1> HIDE DEF reply
<1>2. /\ CallShape'
      /\ call'.request = call.request /\ call'.step = "done"
      /\ call'.reply = reply /\ call'.network = None /\ call'.ends = << >>
      /\ call'.tip = call.tip /\ call'.moved = call.moved
  BY <1>1, AnswerFacts DEF CInv
<1>3. CallOK'
  BY <1>1, <1>2 DEF CInv, CallOK, Up, vars
<1>4. NodeChainOK'
  BY <1>1, <1>2 DEF CInv, NodeChainOK, Up, vars
<1>5. LatestOK'
  BY <1>1, <1>2 DEF LatestOK, LatestNamesABlock, Replied, At
<1>6. RootsOK'
  BY <1>1, <1>2 DEF CInv, RootsOK, Replied, At, vars
<1> QED
  BY <1>2, <1>3, <1>4, <1>5, <1>6 DEF CInv

(* An answer that says nothing about the latest block or about subtrees.   *)
LEMMA AnswerPreserves ==
  ASSUME CInv, NEW reply \in ReplyType, Answer(reply), call.step # "idle",
         call.request.kind \notin {"latest", "subtrees"},
         UNCHANGED <<vars, nodeChain>>
  PROVE  CInv'
<1>1. /\ CallShape'
      /\ call'.request = call.request /\ call'.step = "done"
      /\ call'.reply = reply /\ call'.network = None /\ call'.ends = << >>
  BY AnswerFacts DEF CInv
<1>2. CallOK'
  BY <1>1 DEF CInv, CallOK, Up, vars
<1>3. NodeChainOK'
  BY <1>1 DEF CInv, NodeChainOK, Up, vars
<1>4. LatestOK' /\ RootsOK'
  BY <1>1 DEF LatestOK, LatestNamesABlock, RootsOK, Replied, At
<1> QED
  BY <1>1, <1>2, <1>3, <1>4 DEF CInv

(* A step of a handler that has nothing to do with subtrees.               *)
LEMMA ContinuePreserves ==
  ASSUME CInv, CallShape', UNCHANGED <<vars, nodeChain>>,
         call.step \notin {"idle", "done"},
         call.request.kind # "subtrees",
         call'.step \in {"hash", "indexed", "count", "named", "treestate"},
         call'.request = call.request, call'.reply = call.reply,
         call'.step = "hash" =>
           call.request.kind = "latest" /\ call'.height \in Nat /\ HasRow(call'.height),
         call'.step \in {"named", "treestate"} =>
           call.request.kind \in {"treestate", "latesttreestate"} /\ call'.height \in Nat
  PROVE  CInv'
<1>1. CallOK'
  BY DEF CInv, CallOK, Up, vars
<1>2. NodeChainOK'
  BY DEF CInv, NodeChainOK, Up, vars
<1>3. LatestOK'
  BY DEF LatestOK, LatestNamesABlock, Replied, At, HasRow, vars
<1>4. RootsOK'
  BY DEF RootsOK
<1> QED
  BY <1>1, <1>2, <1>3, <1>4 DEF CInv
-----------------------------------------------------------------------------
(* The actions of the handlers one by one. *)

LEMMA LatestSteps ==
  ASSUME IInv, CInv, LatestHeight \/ LatestHash
  PROVE  CInv'
<1>1. CASE LatestHeight
  <2>1. UNCHANGED <<vars, nodeChain>> /\ call.step = "start" /\ call.request.kind = "latest"
    BY <1>1 DEF LatestHeight, At
  <2>2. CASE MaxHeight = None
    BY <1>1, <2>1, <2>2, RefusePreserves DEF LatestHeight, Statuses
  <2>3. CASE MaxHeight # None
    <3>1. call' = [call EXCEPT !.step = "hash", !.height = MaxHeight]
      BY <1>1, <2>3 DEF LatestHeight
    <3>2. MaxHeight \in Nat /\ HasRow(MaxHeight)
      BY <2>3, MaxHeightFacts, HeightsFacts DEF IInv, HasRow
    <3>3. /\ CallShape'
          /\ call'.step = "hash" /\ call'.height = MaxHeight
          /\ call'.request = call.request /\ call'.reply = call.reply
          /\ call'.network = call.network
      BY <3>1, <3>2 DEF CInv, CallShape, CallSteps
    <3> QED
      BY <2>1, <3>2, <3>3, ContinuePreserves
  <2> QED
    BY <2>2, <2>3
<1>2. CASE LatestHash
  <2> DEFINE block == IF HasRow(call.height) THEN rows[call.height].block ELSE None
             reply == Reply("ok", call.height, block, None)
  <2>1. /\ UNCHANGED <<vars, nodeChain>> /\ call.step = "hash"
        /\ call.request.kind = "latest" /\ Answer(reply)
    BY <1>2 DEF LatestHash, At
  <2>2. call.height \in Nat /\ (HasRow(call.height) \/ call.pruned)
    BY <2>1 DEF CInv, CallOK, LatestOK
  <2>3. /\ block \in Block \cup {None}
        /\ block = None => call.pruned
        /\ block # None => Height(block) = call.height
    <3>1. CASE HasRow(call.height)
      <4>1. rows[call.height].block \in Block /\ Height(rows[call.height].block) = call.height
        BY <3>1 DEF IInv, TypeOK, Row, RowsInPlace, HasRow
      <4> QED
        BY <3>1, <4>1, NoneAssumption
    <3>2. CASE ~HasRow(call.height)
      BY <2>2, <3>2
    <3> QED
      BY <3>1, <3>2
  <2> HIDE DEF block
  <2>4. /\ reply \in ReplyType /\ reply.height = call.height
        /\ reply.block = block /\ reply.network = None
    BY <2>2, <2>3 DEF Reply, ReplyType, Statuses
  <2> HIDE DEF reply
  <2>5. /\ CallShape'
        /\ call'.request = call.request /\ call'.step = "done"
        /\ call'.reply = reply /\ call'.network = None /\ call'.ends = << >>
        /\ call'.pruned = call.pruned
    BY <2>1, <2>4, AnswerFacts DEF CInv
  <2>6. CallOK'
    BY <2>1, <2>4, <2>5 DEF CInv, CallOK, Up, vars
  <2>7. NodeChainOK'
    BY <2>1, <2>4, <2>5 DEF CInv, NodeChainOK, Up, vars
  <2>8. LatestOK'
    BY <2>3, <2>4, <2>5 DEF LatestOK, LatestNamesABlock, Replied, At
  <2>9. RootsOK'
    BY <2>1, <2>5 DEF RootsOK
  <2> QED
    BY <2>5, <2>6, <2>7, <2>8, <2>9 DEF CInv
<1> QED
  BY <1>1, <1>2

LEMMA BlockAndInfoSteps ==
  ASSUME IInv, CInv, GetBlock \/ LightdNode \/ LightdHeight
  PROVE  CInv'
<1>1. CASE GetBlock
  <2> DEFINE h == call.request.height
             reply == Reply("ok", h, rows[h].block, None)
  <2>1. UNCHANGED <<vars, nodeChain>> /\ call.step = "start" /\ call.request.kind = "block"
    BY <1>1 DEF GetBlock, At
  <2>2. call.request \in Requests /\ h \in Nat
    BY <2>1, RequestAssumption DEF CInv, CallOK
  <2>3. CASE Refuse("invalid_argument") \/ Refuse("not_found")
    BY <2>1, <2>3, RefusePreserves DEF Statuses
  <2>4. CASE HasRow(h) /\ Answer(reply)
    <3>1. rows[h].block \in Block
      BY <2>4 DEF IInv, TypeOK, Row, HasRow
    <3>2. reply \in ReplyType /\ reply.network = None
      BY <2>2, <3>1 DEF Reply, ReplyType, Statuses
    <3> QED
      BY <2>1, <2>4, <3>2, AnswerPreserves
  <2> QED
    BY <1>1, <2>3, <2>4 DEF GetBlock
<1>2. CASE LightdNode
  <2>1. /\ UNCHANGED <<vars, nodeChain>> /\ call.step = "start"
        /\ call.request.kind = "info"
        /\ call' = [call EXCEPT !.step = "indexed", !.network = nodeChain]
    BY <1>2 DEF LightdNode, At
  <2>2. /\ CallShape'
        /\ call'.step = "indexed" /\ call'.network = nodeChain
        /\ call'.request = call.request /\ call'.reply = call.reply
    BY <2>1 DEF CInv, CallShape, CallSteps, NodeChainOK
  <2> QED
    BY <2>1, <2>2, ContinuePreserves
<1>3. CASE LightdHeight
  <2> DEFINE height == IF MaxHeight = None THEN 0 ELSE MaxHeight
             reply == Reply("ok", height, None, call.network)
  <2>1. /\ UNCHANGED <<vars, nodeChain>> /\ call.step = "indexed"
        /\ call.request.kind = "info" /\ Answer(reply)
    BY <1>3 DEF LightdHeight, At
  <2>2. height \in Nat
    BY MaxHeightFacts, HeightsFacts DEF IInv
  <2> HIDE DEF height
  <2>3. reply \in ReplyType /\ reply.network = call.network
    BY <2>2 DEF Reply, ReplyType, Statuses, CInv, CallShape
  <2> QED
    BY <2>1, <2>3, AnswerPreserves
<1> QED
  BY <1>1, <1>2, <1>3

LEMMA AskPreserves ==
  ASSUME CInv, NEW h \in Nat, AskTreeState(h), UNCHANGED <<vars, nodeChain>>,
         call.step \in {"start", "count"},
         call.request.kind \in {"treestate", "latesttreestate"}
  PROVE  CInv'
<1>1. call' = [call EXCEPT !.step = "named", !.height = h]
  BY DEF AskTreeState
<1>2. /\ CallShape'
      /\ call'.step = "named" /\ call'.height = h
      /\ call'.request = call.request /\ call'.reply = call.reply
  BY <1>1 DEF CInv, CallShape, CallSteps
<1> QED
  BY <1>2, ContinuePreserves

LEMMA TreeStateSteps ==
  ASSUME IInv, CInv,
         \/ TreeStateHeight \/ LatestTreeStateHeight \/ TreeStateCount
         \/ TreeStateNetwork \/ FetchTreeState
  PROVE  CInv'
<1>0. MaxHeight # None => MaxHeight \in Nat
  BY MaxHeightFacts, HeightsFacts DEF IInv
<1>00. best \in Block /\ Height(best) \in Nat
  BY HeightFacts DEF IInv, TypeOK
<1>1. CASE TreeStateHeight
  <2> DEFINE h == call.request.height
  <2>1. /\ UNCHANGED <<vars, nodeChain>> /\ call.step = "start"
        /\ call.request.kind = "treestate"
    BY <1>1 DEF TreeStateHeight, At
  <2>2. h \in Nat
    BY <2>1, RequestAssumption DEF CInv, CallOK
  <2>3. CASE AskTreeState(h)
    BY <2>1, <2>2, <2>3, AskPreserves
  <2>4. CASE MaxHeight # None /\ AskTreeState(MaxHeight)
    BY <1>0, <2>1, <2>4, AskPreserves
  <2>5. CASE Refuse("unavailable")
    BY <2>1, <2>5, RefusePreserves DEF Statuses
  <2> QED
    BY <1>1, <2>3, <2>4, <2>5 DEF TreeStateHeight
<1>2. CASE LatestTreeStateHeight
  <2>1. /\ UNCHANGED <<vars, nodeChain>> /\ call.step = "start"
        /\ call.request.kind = "latesttreestate"
    BY <1>2 DEF LatestTreeStateHeight, At
  <2>2. CASE MaxHeight # None
    BY <1>0, <1>2, <2>1, <2>2, AskPreserves DEF LatestTreeStateHeight
  <2>3. CASE MaxHeight = None
    <3>1. call' = [call EXCEPT !.step = "count"]
      BY <1>2, <2>3 DEF LatestTreeStateHeight
    <3>2. /\ CallShape'
          /\ call'.step = "count" /\ call'.network = call.network
          /\ call'.request = call.request /\ call'.reply = call.reply
      BY <3>1 DEF CInv, CallShape, CallSteps
    <3> QED
      BY <2>1, <3>2, ContinuePreserves
  <2> QED
    BY <2>2, <2>3
<1>3. CASE TreeStateCount
  BY <1>3, <1>00, AskPreserves DEF TreeStateCount, At
<1>4. CASE FetchTreeState
  <2>1. /\ UNCHANGED <<vars, nodeChain>> /\ call.step = "treestate"
        /\ call.request.kind \in {"treestate", "latesttreestate"}
        /\ call.height \in Nat
    BY <1>4 DEF FetchTreeState, CInv, CallOK
  <2>2. CASE call.height <= Height(best)
    <3> DEFINE reply == Reply("ok", call.height, BlockAt(best, call.height), call.network)
    <3>1. BlockAt(best, call.height) \in Block
      BY <1>00, <2>1, <2>2, BlockAtFacts
    <3>2. reply \in ReplyType /\ reply.network = call.network
      BY <2>1, <3>1 DEF Reply, ReplyType, Statuses, CInv, CallShape
    <3>3. Answer(reply)
      BY <1>4, <2>2 DEF FetchTreeState
    <3> QED
      BY <2>1, <3>2, <3>3, AnswerPreserves
  <2>3. CASE ~(call.height <= Height(best))
    BY <1>4, <2>1, <2>3, RefusePreserves DEF FetchTreeState, Statuses
  <2> QED
    BY <2>2, <2>3
<1>5. CASE TreeStateNetwork
  <2>1. /\ UNCHANGED <<vars, nodeChain>> /\ call.step = "named"
        /\ call' = [call EXCEPT !.step = "treestate", !.network = nodeChain]
    BY <1>5 DEF TreeStateNetwork
  <2>2. call.request.kind \in {"treestate", "latesttreestate"} /\ call.height \in Nat
    BY <2>1 DEF CInv, CallOK
  <2>3. /\ CallShape'
        /\ call'.step = "treestate" /\ call'.height = call.height
        /\ call'.request = call.request /\ call'.reply = call.reply
    BY <2>1 DEF CInv, CallShape, CallSteps, NodeChainOK
  <2> QED
    BY <2>1, <2>2, <2>3, ContinuePreserves
<1> QED
  BY <1>1, <1>2, <1>3, <1>4, <1>5

LEMMA CallFailsStep ==
  ASSUME CInv, CallFails
  PROVE  CInv'
<1>1. UNCHANGED <<vars, nodeChain>> /\ call.step # "idle"
  BY DEF CallFails
<1>2. CASE call.step = "count"
  BY <1>1, <1>2, RefusePreserves DEF CallFails, Statuses
<1>3. CASE call.step # "count"
  BY <1>1, <1>3, RefusePreserves DEF CallFails, Statuses
<1> QED
  BY <1>2, <1>3
-----------------------------------------------------------------------------
(* Subtree roots step by step. *)

(* The chain grows, or stays. *)
LEMMA ListsExtend ==
  ASSUME NEW b \in Block, NEW c \in Block, OnChain(b, c), NEW pool,
         NEW start \in Nat, NEW roots \in Seq(RootType), NEW ends \in Seq(Nat),
         Lists(SubtreeEnds(pool, b), start, roots, ends, b)
  PROVE  Lists(SubtreeEnds(pool, c), start, roots, ends, c)
<1> DEFINE old == SubtreeEnds(pool, b)
           new == SubtreeEnds(pool, c)
           k == Len(old)
           l == Len(new)
           m == Len(roots)
<1>1. /\ k \in Nat /\ l \in Nat /\ k <= l /\ m \in Nat
      /\ \A i \in 1 .. k : new[i] = old[i] /\ old[i] \in 0 .. Height(b)
  BY EndsFacts, EndsExtend, LenProperties
<1> HIDE DEF old, new, k, l, m
<1>2. ASSUME NEW i \in 1 .. m
      PROVE  /\ start + i \in 1 .. l
             /\ roots[i].height = new[start + i]
             /\ roots[i].block \in {None, BlockAt(c, roots[i].height)}
  <2>1. /\ start + i \in 1 .. k
        /\ roots[i].height = old[start + i]
        /\ roots[i].block \in {None, BlockAt(b, roots[i].height)}
    BY DEF Lists, old, k, m
  <2>2. roots[i].height \in 0 .. Height(b) /\ old[start + i] = new[start + i]
    BY <1>1, <2>1
  <2>3. BlockAt(c, roots[i].height) = BlockAt(b, roots[i].height)
    BY <2>2, OnChainFacts
  <2>4. start + i \in 1 .. l
    BY <1>1, <2>1
  <2> QED
    BY <2>1, <2>2, <2>3, <2>4
<1>3. ASSUME NEW j \in 1 .. Len(ends)
      PROVE  /\ start + m + j \in 1 .. l
             /\ ends[j] = new[start + m + j]
  <2>1. start + m + j \in 1 .. k /\ ends[j] = old[start + m + j]
    BY DEF Lists, old, k, m
  <2>2. start + m + j \in 1 .. l
    BY <1>1, <2>1
  <2> QED
    BY <1>1, <2>1, <2>2
<1> QED
  BY <1>2, <1>3 DEF Lists, new, l, m

(* A height gets its hash, or goes without. *)
LEMMA ListsResolve ==
  ASSUME NEW b \in Block, NEW subtrees, NEW start \in Nat,
         NEW roots \in Seq(RootType), NEW ends \in Seq(Nat), ends # << >>,
         NEW block \in Block \cup {None}, block \in {None, BlockAt(b, Head(ends))},
         Lists(subtrees, start, roots, ends, b)
  PROVE  LET more == Append(roots, [height |-> Head(ends), block |-> block])
         IN  /\ more \in Seq(RootType)
             /\ Tail(ends) \in Seq(Nat)
             /\ Lists(subtrees, start, more, Tail(ends), b)
             /\ Len(more) + Len(Tail(ends)) = Len(roots) + Len(ends)
<1> DEFINE root == [height |-> Head(ends), block |-> block]
           more == Append(roots, root)
           rest == Tail(ends)
           m == Len(roots)
           n == Len(ends)
           k == Len(more)
           l == Len(rest)
<1>1. /\ n \in Nat \ {0} /\ l = n - 1 /\ rest \in Seq(Nat)
      /\ Head(ends) \in Nat /\ Head(ends) = ends[1]
      /\ \A j \in 1 .. n - 1 : rest[j] = ends[j + 1]
  BY TailFacts
<1>2. root \in RootType /\ root.height = ends[1] /\ root.block \in {None, BlockAt(b, ends[1])}
  BY <1>1 DEF RootType
<1> HIDE DEF root
<1>3. /\ m \in Nat /\ more \in Seq(RootType) /\ k = m + 1
      /\ \A i \in 1 .. m : more[i] = roots[i]
      /\ more[m + 1] = root
  BY <1>2, AppendFacts, LenProperties
<1>4. /\ \A i \in 1 .. m : /\ start + i \in 1 .. Len(subtrees)
                           /\ roots[i].height = subtrees[start + i]
                           /\ roots[i].block \in {None, BlockAt(b, roots[i].height)}
      /\ \A j \in 1 .. n : /\ start + m + j \in 1 .. Len(subtrees)
                           /\ ends[j] = subtrees[start + m + j]
  BY DEF Lists
<1> HIDE DEF more, rest, m, n, k, l
<1>5. ASSUME NEW i \in 1 .. k
      PROVE  /\ start + i \in 1 .. Len(subtrees)
             /\ more[i].height = subtrees[start + i]
             /\ more[i].block \in {None, BlockAt(b, more[i].height)}
  <2>1. CASE i \in 1 .. m
    BY <1>3, <1>4, <2>1
  <2>2. CASE i = m + 1
    <3>1. 1 \in 1 .. n /\ start + m + 1 = start + i
      BY <1>1, <1>3, <2>2
    <3>2. start + i \in 1 .. Len(subtrees) /\ ends[1] = subtrees[start + i]
      BY <1>4, <3>1
    <3>3. more[i] = root
      BY <1>3, <2>2
    <3> QED
      BY <1>2, <3>2, <3>3
  <2>3. i \in 1 .. m \/ i = m + 1
    BY <1>3
  <2> QED
    BY <2>1, <2>2, <2>3
<1>6. ASSUME NEW j \in 1 .. l
      PROVE  /\ start + k + j \in 1 .. Len(subtrees)
             /\ rest[j] = subtrees[start + k + j]
  <2>1. j \in 1 .. n - 1 /\ j + 1 \in 1 .. n /\ start + m + (j + 1) = start + k + j
    BY <1>1, <1>3
  <2>2. start + k + j \in 1 .. Len(subtrees) /\ ends[j + 1] = subtrees[start + k + j]
    BY <1>4, <2>1
  <2> QED
    BY <1>1, <2>1, <2>2
<1>7. Lists(subtrees, start, more, rest, b)
  BY <1>5, <1>6 DEF Lists, k, l
<1>8. k + l = m + n
  BY <1>1, <1>3
<1> QED
  BY <1>1, <1>3, <1>7, <1>8 DEF root, more, rest, m, n, k, l

LEMMA ResolvePreserves ==
  ASSUME IInv, CInv, At("subtrees", "ends"), call.ends # << >>,
         NEW block \in {None, BlockAt(best, Head(call.ends))}, block \in Block \cup {None},
         Resolved(block), UNCHANGED <<vars, nodeChain>>
  PROVE  CInv'
<1> DEFINE root  == [height |-> Head(call.ends), block |-> block]
           roots == Append(call.roots, root)
           rest  == Tail(call.ends)
<1>1. call' = [call EXCEPT !.ends = rest, !.roots = roots]
  BY DEF Resolved
<1>2. /\ call.ends \in Seq(Nat) /\ call.roots \in Seq(RootType)
      /\ best \in Block
  BY DEF CInv, CallShape, IInv, TypeOK
<1>3. rest \in Seq(Nat) /\ roots \in Seq(RootType)
  <2>1. rest \in Seq(Nat) /\ Head(call.ends) \in Nat
    BY <1>2, TailFacts
  <2>2. root \in RootType
    BY <2>1 DEF RootType
  <2> QED
    BY <1>2, <2>1, <2>2, AppendFacts
<1> HIDE DEF roots, rest
<1>4. /\ CallShape'
      /\ call'.ends = rest /\ call'.roots = roots
      /\ call'.request = call.request /\ call'.step = call.step
      /\ call'.reply = call.reply /\ call'.network = call.network
      /\ call'.tip = call.tip /\ call'.moved = call.moved
      /\ call'.pruned = call.pruned
  BY <1>1, <1>3 DEF CInv, CallShape
<1>5. call.step = "ends" /\ call.request.kind = "subtrees"
  BY DEF At
<1>6. CallOK'
  BY <1>4, <1>5 DEF CInv, CallOK, Up, vars
<1>7. NodeChainOK'
  BY <1>4 DEF CInv, NodeChainOK, Up, vars
<1>8. LatestOK'
  BY <1>4, <1>5 DEF LatestOK, LatestNamesABlock, Replied, At
<1>9. RootsOK'
  <2> SUFFICES ASSUME ~call.moved
               PROVE  /\ call'.tip \in Block /\ OnChain(call'.tip, best')
                      /\ Listed'
    BY <1>4, <1>5 DEF RootsOK
  <2>1. /\ call.tip \in Block /\ OnChain(call.tip, best) /\ Listed
    BY <1>5 DEF CInv, CallOK, RootsOK
  <2>2. call.request.start \in Nat
    BY <1>5, RequestAssumption DEF CInv, CallOK
  <2>3. /\ Lists(SubtreeEnds(call.request.pool, best), call.request.start, roots, rest, best)
        /\ Len(roots) + Len(rest) = Len(call.roots) + Len(call.ends)
    <3> DEFINE subtrees == SubtreeEnds(call.request.pool, best)
               start == call.request.start
    <3>1. Lists(subtrees, start, call.roots, call.ends, best)
      BY <2>1 DEF Listed
    <3> HIDE DEF subtrees, start
    <3>2. start \in Nat
      BY <2>2 DEF start
    <3>3. /\ Lists(subtrees, start, roots, rest, best)
          /\ Len(roots) + Len(rest) = Len(call.roots) + Len(call.ends)
      <4> DEFINE had == call.roots
                 left == call.ends
      <4>1. /\ had \in Seq(RootType) /\ left \in Seq(Nat) /\ left # << >>
            /\ Lists(subtrees, start, had, left, best)
            /\ block \in {None, BlockAt(best, Head(left))}
        BY <1>2, <3>1
      <4> HIDE DEF had, left
      <4>2. LET more == Append(had, [height |-> Head(left), block |-> block])
            IN  /\ Lists(subtrees, start, more, Tail(left), best)
                /\ Len(more) + Len(Tail(left)) = Len(had) + Len(left)
        BY <1>2, <3>2, <4>1, ListsResolve
      <4> QED
        BY <4>2 DEF roots, rest, had, left
    <3> QED
      BY <3>3 DEF subtrees, start
  <2>4. best' = best
    BY DEF vars
  <2>5. Listed'
    BY <1>4, <2>1, <2>3, <2>4 DEF Listed
  <2> QED
    BY <1>4, <2>1, <2>4, <2>5
<1> QED
  BY <1>4, <1>6, <1>7, <1>8, <1>9 DEF CInv

LEMMA SubtreeSteps ==
  ASSUME IInv, CInv, FetchSubtrees \/ ResolveEnd \/ ResolveEndFails \/ SubtreesDone
  PROVE  CInv'
<1>0. best \in Block
  BY DEF IInv, TypeOK
<1>1. CASE FetchSubtrees
  <2>1. /\ UNCHANGED <<vars, nodeChain>> /\ call.step = "start"
        /\ call.request.kind = "subtrees" /\ call.request \in Requests
    BY <1>1 DEF FetchSubtrees, At, CInv, CallOK
  <2>2. CASE call.request.pool \notin SubtreePools
    BY <1>1, <2>1, <2>2, RefusePreserves DEF FetchSubtrees, Statuses
  <2>3. CASE call.request.pool \in SubtreePools
    <3> DEFINE page == Page(call.request, best)
    <3>1. /\ page \in Seq(Nat)
          /\ Lists(SubtreeEnds(call.request.pool, best), call.request.start, << >>, page, best)
          /\ Complete(Len(SubtreeEnds(call.request.pool, best)), call.request.start,
                      call.request.max, Len(page))
      BY <1>0, <2>1, PageFacts
    <3>2. call' = [call EXCEPT !.step = "ends", !.ends = page]
      BY <1>1, <2>3 DEF FetchSubtrees
    <3> HIDE DEF page
    <3>3. /\ CallShape'
          /\ call'.step = "ends" /\ call'.ends = page /\ call'.roots = << >>
          /\ call'.request = call.request /\ call'.reply = call.reply
          /\ call'.network = call.network /\ call'.tip = call.tip
          /\ call'.moved = call.moved
      BY <2>1, <3>1, <3>2 DEF CInv, CallShape, CallSteps, CallOK
    <3>4. CallOK'
      BY <2>1, <2>3, <3>3 DEF CInv, CallOK, Up, vars
    <3>5. NodeChainOK'
      BY <2>1, <3>3 DEF CInv, NodeChainOK, Up, vars
    <3>6. LatestOK'
      BY <3>3 DEF LatestOK, LatestNamesABlock, Replied, At
    <3>7. RootsOK'
      <4> SUFFICES ASSUME ~call.moved
                   PROVE  /\ call'.tip \in Block /\ OnChain(call'.tip, best')
                          /\ Listed'
        BY <2>1, <3>3 DEF RootsOK
      <4>1. call.tip \in Block /\ OnChain(call.tip, best) /\ best' = best
        BY <2>1 DEF CInv, CallOK, RootsOK, vars
      <4> DEFINE known == Len(SubtreeEnds(call.request.pool, call.tip))
                 now == Len(SubtreeEnds(call.request.pool, best))
                 n == Len(page)
                 start == call.request.start
                 max == call.request.max
      <4>2. known \in Nat /\ now \in Nat /\ known <= now
        BY <1>0, <4>1, EndsFacts, EndsExtend
      <4>3. start \in Nat /\ max \in Nat
        BY <2>1, RequestAssumption
      <4>4. Complete(now, start, max, n) /\ n \in Nat
        BY <3>1, LenProperties
      <4>5. Len(call'.roots) + Len(call'.ends) = n
        <5>1. Len(<< >>) = 0
          BY EmptySeq
        <5> HIDE DEF n
        <5> QED
          BY <3>3, <4>4, <5>1 DEF n
      <4> HIDE DEF known, now, n, start, max
      <4>6. Complete(known, start, max, n)
        BY <4>2, <4>3, <4>4 DEF Complete
      <4>7. Listed'
        BY <2>3, <3>1, <3>3, <4>1, <4>5, <4>6 DEF Listed, known, start, max
      <4> QED
        BY <3>3, <4>1, <4>7
    <3> QED
      BY <3>3, <3>4, <3>5, <3>6, <3>7 DEF CInv
  <2> QED
    BY <2>2, <2>3
<1>2. CASE ResolveEnd
  <2>1. call.ends \in Seq(Nat) /\ call.ends # << >> /\ Head(call.ends) <= Height(best)
    BY <1>2 DEF ResolveEnd, CInv, CallShape
  <2>2. Head(call.ends) \in 0 .. Height(best)
    BY <1>0, <2>1, TailFacts, HeightFacts
  <2>3. BlockAt(best, Head(call.ends)) \in Block
    BY <1>0, <2>2, BlockAtFacts
  <2> QED
    BY <1>2, <2>3, ResolvePreserves DEF ResolveEnd
<1>3. CASE ResolveEndFails
  BY <1>3, ResolvePreserves DEF ResolveEndFails
<1>4. CASE SubtreesDone
  <2> DEFINE reply == Reply("ok", None, None, None)
  <2>1. /\ UNCHANGED <<vars, nodeChain>> /\ call.step = "ends"
        /\ call.request.kind = "subtrees" /\ call.ends = << >> /\ Answer(reply)
    BY <1>4 DEF SubtreesDone, At
  <2>2. reply \in ReplyType /\ reply.network = None
    BY DEF Reply, ReplyType, Statuses
  <2> HIDE DEF reply
  <2>3. /\ CallShape'
        /\ call'.request = call.request /\ call'.step = "done"
        /\ call'.reply = reply /\ call'.network = None /\ call'.ends = << >>
        /\ call'.ends = call.ends /\ call'.roots = call.roots
        /\ call'.tip = call.tip /\ call'.moved = call.moved
    BY <2>1, <2>2, AnswerFacts DEF CInv
  <2>4. CallOK'
    BY <2>1, <2>2, <2>3 DEF CInv, CallOK, Up, vars
  <2>5. NodeChainOK'
    BY <2>1, <2>2, <2>3 DEF CInv, NodeChainOK, Up, vars
  <2>6. LatestOK'
    BY <2>1, <2>3 DEF LatestOK, LatestNamesABlock, Replied, At
  <2>7. RootsOK'
    <3> SUFFICES ASSUME ~call.moved
                 PROVE  /\ call'.tip \in Block /\ OnChain(call'.tip, best')
                        /\ Listed'
      BY <2>1, <2>3 DEF RootsOK
    <3>1. call.tip \in Block /\ OnChain(call.tip, best) /\ Listed /\ best' = best
      BY <2>1 DEF CInv, RootsOK, vars
    <3>2. Listed'
      BY <2>3, <3>1 DEF Listed
    <3> QED
      BY <2>3, <3>1, <3>2
  <2> QED
    BY <2>3, <2>4, <2>5, <2>6, <2>7 DEF CInv
<1> QED
  BY <1>1, <1>2, <1>3, <1>4
-----------------------------------------------------------------------------
(* Calls come and go, the node moves, rows come and go. *)

LEMMA IssueStep ==
  ASSUME IInv, CInv, NEW r \in Requests, Issue(r)
  PROVE  CInv'
<1>1. best \in Block
  BY DEF IInv, TypeOK
<1>2. /\ call' = [NoCall EXCEPT !.request = r, !.step = "start",
                                !.tip = IF r.kind = "subtrees" THEN best ELSE None]
      /\ Up /\ UNCHANGED <<vars, nodeChain>>
  BY DEF Issue
<1>3. /\ CallShape'
      /\ call'.step = "start" /\ call'.request = r /\ call'.reply = None
      /\ call'.network = None /\ call'.roots = << >>
      /\ call'.tip = IF r.kind = "subtrees" THEN best ELSE None
  <2>1. << >> \in Seq(Nat) /\ << >> \in Seq(RootType)
    BY EmptySeq
  <2>2. call' = [request |-> r, step |-> "start", height |-> None,
                 network |-> None, ends |-> << >>, roots |-> << >>,
                 reply |-> None, tip |-> IF r.kind = "subtrees" THEN best ELSE None,
                 pruned |-> FALSE, moved |-> FALSE]
    BY <1>2 DEF NoCall
  <2> QED
    BY <1>1, <2>1, <2>2 DEF CallShape, CallSteps
<1>4. CallOK'
  BY <1>2, <1>3 DEF CallOK, Up, vars
<1>5. NodeChainOK'
  BY <1>2, <1>3 DEF CInv, NodeChainOK, Up, vars
<1>6. LatestOK'
  BY <1>3 DEF LatestOK, LatestNamesABlock, Replied, At
<1>7. RootsOK'
  BY <1>1, <1>2, <1>3, OnChainReflexive DEF RootsOK, Replied, At, vars
<1> QED
  BY <1>3, <1>4, <1>5, <1>6, <1>7 DEF CInv

(* No call is a call that is well. *)
LEMMA NoCallFacts ==
  /\ call = NoCall =>
       /\ CallShape /\ CallOK /\ LatestOK /\ RootsOK
       /\ call.step = "idle" /\ call.network = None /\ call.reply = None
  /\ call' = NoCall =>
       /\ (CallShape /\ CallOK /\ LatestOK /\ RootsOK)'
       /\ call'.step = "idle" /\ call'.network = None /\ call'.reply = None
<1>1. << >> \in Seq(Nat) /\ << >> \in Seq(RootType)
  BY EmptySeq
<1>2. ASSUME call = NoCall PROVE CallShape /\ CallOK /\ LatestOK /\ RootsOK
  BY <1>1, <1>2
  DEF NoCall, CallShape, CallSteps, CallOK, LatestOK, LatestNamesABlock, RootsOK,
      Replied, At
<1>3. ASSUME call' = NoCall PROVE (CallShape /\ CallOK /\ LatestOK /\ RootsOK)'
  BY <1>1, <1>3
  DEF NoCall, CallShape, CallSteps, CallOK, LatestOK, LatestNamesABlock, RootsOK,
      Replied, At
<1> QED
  BY <1>2, <1>3 DEF NoCall

LEMMA ReturnStep ==
  ASSUME CInv, Return
  PROVE  CInv'
<1>1. call' = NoCall /\ UNCHANGED <<vars, nodeChain>>
  BY DEF Return
<1>2. /\ (CallShape /\ CallOK /\ LatestOK /\ RootsOK)'
      /\ call'.network = None /\ call'.reply = None
  BY <1>1, NoCallFacts
<1>3. NodeChainOK'
  BY <1>1, <1>2 DEF CInv, NodeChainOK, Up, vars
<1> QED
  BY <1>2, <1>3 DEF CInv

LEMMA UnchangedCall ==
  ASSUME CInv, UNCHANGED <<vars, call>>, NodeChainOK'
  PROVE  CInv'
  BY DEF CInv, CallShape, CallOK, NodeChainOK, LatestOK, LatestNamesABlock, RootsOK,
         Listed, Replied, At, Up, HasRow, vars

LEMMA RefreshStep ==
  ASSUME IInv, CInv, RefreshNode
  PROVE  CInv'
<1>1. NodeChainOK'
  BY ChainNameFacts DEF RefreshNode, NodeChainOK, IInv, TypeOK
<1> QED
  BY <1>1, UnchangedCall DEF RefreshNode

LEMMA MeanwhileStep ==
  ASSUME IInv, IInv', CInv, IngestMeanwhile
  PROVE  CInv'
<1>1. Next /\ best \in Block /\ best' \in Block
  BY DEF IngestMeanwhile, IInv, TypeOK
<1>2. ChainName(best) \in Block
  BY <1>1, ChainNameFacts
<1>3. nodeChain' \in Block \cup {None}
  BY <1>2 DEF IngestMeanwhile, CInv, NodeChainOK
<1>5. CASE call' = NoCall
  <2>1. /\ (CallShape /\ CallOK /\ LatestOK /\ RootsOK)'
    BY <1>5, NoCallFacts
  <2>2. NodeChainOK'
    BY <1>3 DEF NodeChainOK
  <2> QED
    BY <2>1, <2>2 DEF CInv
<1>6. CASE call' # NoCall
  <2>1. /\ CallShape'
        /\ call.step # "idle" /\ pc' # "down"
        /\ call' = [call EXCEPT !.pruned = call'.pruned, !.moved = call'.moved]
        /\ call'.pruned = \/ call.pruned
                          \/ /\ call.request.kind = "latest"
                             /\ ~(DOMAIN rows \subseteq DOMAIN rows')
        /\ call'.moved = \/ call.moved
                         \/ /\ call.request.kind = "subtrees"
                            /\ ~OnChain(best, best')
    BY <1>6, MeanwhileFacts DEF CInv
  <2>2. /\ call'.request = call.request /\ call'.step = call.step
        /\ call'.height = call.height /\ call'.network = call.network
        /\ call'.ends = call.ends /\ call'.roots = call.roots
        /\ call'.reply = call.reply /\ call'.tip = call.tip
    BY <2>1 DEF CInv, CallShape
  <2>3. Up /\ Up'
    BY <1>1, <2>1, IngestSteps DEF CInv, CallOK
  <2>4. CallOK'
    BY <2>1, <2>2, <2>3 DEF CInv, CallOK
  <2>5. NodeChainOK'
    BY <1>3 DEF NodeChainOK
  <2>6. LatestOK'
    <3>1. call'.step = "hash" => HasRow(call.height)' \/ call'.pruned
      BY <2>1, <2>2 DEF CInv, CallOK, LatestOK, HasRow
    <3>2. LatestNamesABlock'
      BY <2>1, <2>2 DEF CInv, LatestOK, LatestNamesABlock, Replied, At
    <3> QED
      BY <3>1, <3>2 DEF LatestOK
  <2>7. RootsOK'
    <3> SUFFICES ASSUME call.request.kind = "subtrees", ~call'.moved
                 PROVE  /\ call'.tip \in Block /\ OnChain(call'.tip, best')
                        /\ (call.step = "ends" \/ Replied("subtrees")) => Listed'
      BY <2>2 DEF RootsOK, Replied, At
    <3>1. ~call.moved /\ OnChain(best, best')
      BY <2>1
    <3>2. call.tip \in Block /\ OnChain(call.tip, best)
      BY <2>1, <3>1 DEF CInv, RootsOK
    <3>3. OnChain(call.tip, best')
      BY <1>1, <3>1, <3>2, OnChainTransitive
    <3>4. ASSUME call.step = "ends" \/ Replied("subtrees") PROVE Listed'
      <4>1. Listed
        BY <2>1, <3>1, <3>4 DEF CInv, RootsOK
      <4>2. call.request.start \in Nat
        BY <2>1, RequestAssumption DEF CInv, CallOK
      <4>3. call.roots \in Seq(RootType) /\ call.ends \in Seq(Nat)
        BY DEF CInv, CallShape
      <4> DEFINE start == call.request.start
                 pool == call.request.pool
                 roots == call.roots
                 ends == call.ends
      <4>4. Lists(SubtreeEnds(pool, best), start, roots, ends, best)
        BY <4>1 DEF Listed
      <4>5. start \in Nat /\ roots \in Seq(RootType) /\ ends \in Seq(Nat)
        BY <4>2, <4>3
      <4> HIDE DEF start, pool, roots, ends
      <4>6. Lists(SubtreeEnds(pool, best'), start, roots, ends, best')
        BY <1>1, <3>1, <4>4, <4>5, ListsExtend
      <4> QED
        BY <2>2, <4>1, <4>6 DEF Listed, start, pool, roots, ends
    <3> QED
      BY <2>2, <3>2, <3>3, <3>4
  <2> QED
    BY <2>1, <2>4, <2>5, <2>6, <2>7 DEF CInv
<1> QED
  BY <1>5, <1>6
-----------------------------------------------------------------------------
(* The invariant of the server. *)

LEMMA ServeStepsAreSteps == [ServeNext]_serveVars => [Next]_vars
  BY DEF ServeNext, serveVars, IngestMeanwhile, Issue, Return, LatestHeight,
         LatestHash, GetBlock, LightdNode, LightdHeight, TreeStateHeight,
         LatestTreeStateHeight, TreeStateCount, TreeStateNetwork, FetchTreeState,
         FetchSubtrees, ResolveEnd, ResolveEndFails, SubtreesDone, CallFails, RefreshNode

LEMMA StepCInv ==
  ASSUME IInv, IInv', CInv, [ServeNext]_serveVars
  PROVE  CInv'
<1>1. CASE IngestMeanwhile
  BY <1>1, MeanwhileStep
<1>2. CASE \E r \in Requests : Issue(r)
  BY <1>2, IssueStep
<1>3. CASE LatestHeight \/ LatestHash
  BY <1>3, LatestSteps
<1>4. CASE GetBlock \/ LightdNode \/ LightdHeight
  BY <1>4, BlockAndInfoSteps
<1>5. CASE \/ TreeStateHeight \/ LatestTreeStateHeight \/ TreeStateCount
           \/ TreeStateNetwork \/ FetchTreeState
  BY <1>5, TreeStateSteps
<1>6. CASE FetchSubtrees \/ ResolveEnd \/ ResolveEndFails \/ SubtreesDone
  BY <1>6, SubtreeSteps
<1>7. CASE CallFails
  BY <1>7, CallFailsStep
<1>8. CASE RefreshNode
  BY <1>8, RefreshStep
<1>9. CASE Return
  BY <1>9, ReturnStep
<1>10. CASE UNCHANGED serveVars
  BY <1>10, UnchangedCall DEF serveVars, CInv, NodeChainOK
<1> QED
  BY <1>1, <1>2, <1>3, <1>4, <1>5, <1>6, <1>7, <1>8, <1>9, <1>10 DEF ServeNext

LEMMA InitCInv == ServeInit => CInv
<1> SUFFICES ASSUME ServeInit PROVE CInv
  OBVIOUS
<1>1. call = NoCall /\ nodeChain = None /\ pc = "boot"
  BY DEF ServeInit, Init
<1>2. NodeChainOK
  BY <1>1 DEF NodeChainOK, Up
<1> QED
  BY <1>1, <1>2, NoCallFacts DEF CInv

(* Beside any call the ingest task keeps its invariant, and what a handler *)
(* remembers between two steps (a height, a network, a list of heights)    *)
(* stays true of store and node, whatever both do in between.              *)
THEOREM ServeAlways == ServeSpec => [](IInv /\ SeenOK /\ CInv)
<1>1. ServeInit => IInv /\ SeenOK /\ CInv
  BY InitIInv, InitSeen, InitCInv DEF ServeInit
<1>2. IInv /\ SeenOK /\ CInv /\ [ServeNext]_serveVars =>
        (IInv /\ SeenOK /\ CInv)'
  <2> SUFFICES ASSUME IInv, SeenOK, CInv, [ServeNext]_serveVars
               PROVE  (IInv /\ SeenOK /\ CInv)'
    OBVIOUS
  <2>1. [Next]_vars
    BY ServeStepsAreSteps
  <2>2. IInv'
    BY <2>1, StepIInv
  <2>3. SeenOK'
    BY <2>1, StepSeen
  <2> QED
    BY <2>2, <2>3, StepCInv
<1> QED
  BY <1>1, <1>2, PTL DEF ServeSpec

(* Every variable of the server has its type, the fields of a call in      *)
(* flight among them.                                                      *)
THEOREM ServeTypeCorrect == ServeSpec => []ServeTypeOK
<1>1. IInv /\ CInv => ServeTypeOK
  <2> SUFFICES ASSUME IInv, CInv PROVE ServeTypeOK
    OBVIOUS
  <2>1. TypeOK /\ nodeChain \in Block \cup {None}
    BY DEF IInv, CInv, NodeChainOK
  <2>2. /\ call.request \in Requests \cup {None}
        /\ call.step \in CallSteps
        /\ call.height \in Nat \cup {None} /\ call.network \in Block \cup {None}
        /\ call.ends \in Seq(Nat) /\ call.roots \in Seq(RootType)
        /\ call.tip \in Block \cup {None}
        /\ call.pruned \in BOOLEAN /\ call.moved \in BOOLEAN
    BY DEF CInv, CallShape
  <2> QED
    BY <2>1, <2>2 DEF ServeTypeOK, CallSteps, RootType
<1> QED
  BY <1>1, ServeAlways, PTL

(* get_latest_block reads the height and the hash of the top of the store  *)
(* in two locks.  The hash it answers with is always that of a block of    *)
(* the height it answers with, or empty after a prune between the two.     *)
THEOREM LatestIsABlock == ServeSpec => []LatestNamesABlock
<1>1. CInv => LatestNamesABlock
  BY DEF CInv, LatestOK
<1> QED
  BY <1>1, ServeAlways, PTL

(* get_tree_state takes the height from the store and the tree state from  *)
(* the node.  Unless the node has had two blocks at that height since the  *)
(* last prune below it, the answer is about the very block stored there.   *)
THEOREM TreeStateMatchesStore == ServeSpec => TreeStateOfStoredBlock
<1> DEFINE A == call.step = "treestate" /\ call'.step = "done" =>
                  LET reply == call'.reply
                  IN  reply.status = "ok" /\ HasRow(reply.height) /\ ~Disputed(reply.height) =>
                        reply.block = rows[reply.height].block
<1>1. IInv /\ SeenOK /\ CInv /\ [ServeNext]_serveVars => [A]_serveVars
  <2> SUFFICES ASSUME IInv, SeenOK, CInv, ServeNext,
                      call.step = "treestate", call'.step = "done",
                      call'.reply.status = "ok", HasRow(call'.reply.height), ~Disputed(call'.reply.height)
               PROVE  call'.reply.block = rows[call'.reply.height].block
    OBVIOUS
  <2>1. CASE FetchTreeState
    <3>1. CASE call.height <= Height(best)
      <4> DEFINE h == call.height
                 b == rows[h].block
      <4>1. Answer(Reply("ok", h, BlockAt(best, h), call.network))
        BY <2>1, <3>1 DEF FetchTreeState
      <4>2. call'.reply = Reply("ok", h, BlockAt(best, h), call.network)
        BY <4>1 DEF Answer, NoCall
      <4>3. call'.reply.height = h /\ call'.reply.block = BlockAt(best, h)
        BY <4>2 DEF Reply
      <4>4. b \in Held /\ Height(b) = h
        BY <4>3 DEF Held, HasRow, IInv, RowsInPlace
      <4>5. OnChain(b, best)
        BY <3>1, <4>3, <4>4, SeenAgree DEF StaleOnlyWhereDisputed
      <4>6. BlockAt(best, h) = b
        BY <4>4, <4>5 DEF OnChain
      <4> QED
        BY <4>3, <4>6
    <3>2. CASE ~(call.height <= Height(best))
      <4>1. Refuse("internal")
        BY <2>1, <3>2 DEF FetchTreeState
      <4>2. call'.reply.status = "internal"
        BY <4>1 DEF Refuse, Answer, Reply, NoCall
      <4> QED
        BY <4>2
    <3> QED
      BY <3>1, <3>2
  <2>2. CASE CallFails
    <3>1. Refuse("internal")
      BY <2>2 DEF CallFails
    <3>2. call'.reply.status = "internal"
      BY <3>1 DEF Refuse, Answer, Reply, NoCall
    <3> QED
      BY <3>2
  <2>3. CASE IngestMeanwhile
    <3>1. call'.step \in {call.step, "idle"}
      <4>1. CASE call' = NoCall
        BY <4>1 DEF NoCall
      <4>2. CASE call' = [call EXCEPT !.pruned = call'.pruned, !.moved = call'.moved]
        BY <4>2 DEF CInv, CallShape
      <4> QED
        BY <2>3, <4>1, <4>2, MeanwhileFacts DEF CInv
    <3> QED
      BY <3>1
  <2>4. CASE RefreshNode
    BY <2>4 DEF RefreshNode
  <2> QED
    BY <2>1, <2>2, <2>3, <2>4
    DEF ServeNext, Issue, Return, LatestHeight, LatestHash, GetBlock, LightdNode,
        LightdHeight, TreeStateHeight, LatestTreeStateHeight, TreeStateCount,
        TreeStateNetwork,
        FetchSubtrees, ResolveEnd, ResolveEndFails, SubtreesDone, At
<1>2. ServeSpec => [][A]_serveVars
  BY <1>1, ServeAlways, PTL DEF ServeSpec
<1> QED
  BY <1>2 DEF TreeStateOfStoredBlock

(* get_subtree_roots asks for the list once and for the hash of every root *)
(* in a call of its own.  If the node stays on its chain meanwhile, the    *)
(* client gets the subtrees from its index on, without a gap, up to its    *)
(* maximum or to the last one, each with its own block or with no hash.    *)
THEOREM RootsAreOfTheirBlocks == ServeSpec => []RootsNameTheirBlock
<1>1. IInv /\ CInv => RootsNameTheirBlock
  <2> SUFFICES ASSUME IInv, CInv, Replied("subtrees"), ~call.moved
               PROVE  RootsNameTheirBlock
    BY DEF RootsNameTheirBlock
  <2> DEFINE asked == call.request
             roots == call.roots
             ends  == SubtreeEnds(asked.pool, best)
             known == Len(SubtreeEnds(asked.pool, call.tip))
             n     == Len(roots)
  <2>1. call.step = "done" /\ asked.kind = "subtrees" /\ asked \in Requests
    BY DEF Replied, At, CInv, CallOK
  <2>2. Listed /\ call.ends = << >> /\ call.tip \in Block
    <3>1. Listed /\ call.tip \in Block
      BY <2>1 DEF CInv, RootsOK
    <3>2. call.ends = << >>
      BY <2>1 DEF CInv, CallOK
    <3> QED
      BY <3>1, <3>2
  <2>3. asked.start \in Nat /\ asked.max \in Nat /\ asked \in Requests
    BY <2>1, RequestAssumption
  <2>4. /\ roots \in Seq(RootType) /\ n \in Nat /\ DOMAIN roots = 1 .. n
        /\ ends \in Seq(Nat) /\ DOMAIN ends = 1 .. Len(ends)
    <3>1. roots \in Seq(RootType) /\ best \in Block
      BY DEF CInv, CallShape, IInv, TypeOK
    <3>2. ends \in Seq(Nat)
      BY <3>1, EndsFacts
    <3> QED
      BY <3>1, <3>2, LenProperties
  <2>5. Len(call.roots) + Len(call.ends) = n
    <3>1. Len(<< >>) = 0
      BY EmptySeq
    <3> HIDE DEF n
    <3> QED
      BY <2>2, <2>4, <3>1 DEF n
  <2>6. Lists(ends, asked.start, roots, << >>, best) /\ Complete(known, asked.start, asked.max, n)
    BY <2>2, <2>5 DEF Listed
  <2>7. \A i \in DOMAIN roots :
          /\ asked.start + i \in DOMAIN ends
          /\ roots[i].height = ends[asked.start + i]
          /\ roots[i].block \in {None, BlockAt(best, roots[i].height)}
    BY <2>4, <2>6 DEF Lists
  <2>8. /\ (asked.max = n /\ asked.max # 0) \/ known <= asked.start + n
        /\ asked.max # 0 => n <= asked.max
    BY <2>6 DEF Complete
  <2> QED
    BY <2>7, <2>8 DEF RootsNameTheirBlock
<1> QED
  BY <1>1, ServeAlways, PTL
=============================================================================
