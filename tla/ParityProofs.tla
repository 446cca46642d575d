----------------------------- MODULE ParityProofs -----------------------------
(***************************************************************************)
(* Proofs about Parity, for every pair of blocks: any number of rows in    *)
(* any order, with any hashes, lists and texts.                            *)
(***************************************************************************)
EXTENDS Parity, SequenceFacts, FiniteSetTheorems, FunctionTheorems

Unmatched == {i \in DOMAIN ours.vtx : << "vtx.hash", i >> \in issues}

Matched == (1 .. next - 1) \ Unmatched

(* m says which row of the reference each matched row of ours was given:   *)
(* one of its own, all of them together being the used ones, and every     *)
(* list in which the two differ is an issue.                               *)
Matching(m) ==
  /\ m \in [Matched -> used]
  /\ \A i, k \in Matched : m[i] = m[k] => i = k
  /\ \A j \in used : \E i \in Matched : m[i] = j
  /\ \A i \in Matched :
       /\ SameHash(ours.vtx[i].hash, reference.vtx[m[i]].hash)
       /\ CompareTx(i, ours.vtx[i], reference.vtx[m[i]]) \subseteq issues

BlocksOK ==
  /\ CompactBlock(ours) /\ CompactBlock(reference)
  /\ \A i \in DOMAIN ours.vtx : HasShielded(ours.vtx[i])

ShapeOK ==
  /\ step \in {"header", "rows", "sizes", "done"}
  /\ next \in 1 .. Len(ours.vtx) + 1
  /\ used \subseteq DOMAIN reference.vtx
  /\ step = "header" => next = 1 /\ used = {} /\ issues = {}
  /\ step \in {"sizes", "done"} => next \notin DOMAIN ours.vtx
  /\ Unmatched \subseteq 1 .. next - 1
  /\ Cardinality(used) + Cardinality(Unmatched) = next - 1

LeftIssues ==
  {<< "reference.vtx.hash", j >> :
     j \in {k \in DOMAIN reference.vtx \ used : HasShielded(reference.vtx[k])}}

(* What has been compared has been reported. *)
ReportedOK ==
  /\ step # "header" => HeaderIssues \subseteq issues
  /\ step \in {"sizes", "done"} => LeftIssues \subseteq issues
  /\ step = "done" => SizeIssues \subseteq issues

(* Blocks that agree have not been reported on. *)
QuietOK ==
  DistinctIds(ours.vtx) /\ DistinctIds(reference.vtx) /\ BlocksAgree => issues = {}

MInv ==
  BlocksOK /\ ShapeOK /\ ReportedOK /\ QuietOK /\ \E m \in [Matched -> used] : Matching(m)
-----------------------------------------------------------------------------
(* Hashes, texts, lists and rows. *)

LEMMA SameHashFacts ==
  ASSUME NEW x \in DOMAIN Reversed, NEW y \in DOMAIN Reversed, NEW z \in DOMAIN Reversed
  PROVE  /\ SameHash(x, x)
         /\ SameHash(x, y) => SameHash(y, x)
         /\ SameHash(x, y) /\ SameHash(x, z) => SameHash(y, z)
  BY ParityAssumption DEF SameHash

LEMMA LeastOfThree ==
  ASSUME NEW x \in Nat, NEW y \in Nat, NEW z \in Nat
  PROVE  LET n == Min({x, y, z})
         IN  n \in {x, y, z} /\ n <= x /\ n <= y /\ n <= z
<1>1. {x, y, z} \in SUBSET Nat /\ {x, y, z} # {}
  OBVIOUS
<1> QED
  BY <1>1, LeastNumber

(* A beginning of a sequence. *)
LEMMA Beginning ==
  ASSUME NEW S, NEW a \in Seq(S), NEW n \in Nat, n <= Len(a)
  PROVE  /\ SubSeq(a, 1, n) \in Seq(S)
         /\ Len(SubSeq(a, 1, n)) = n
         /\ \A i \in 1 .. n : SubSeq(a, 1, n)[i] = a[i]
<1>1. Len(a) \in Nat
  BY LenProperties
<1>2. CASE n = 0
  <2>1. SubSeq(a, 1, n) = << >>
    BY <1>2
  <2> QED
    BY <1>2, <2>1, EmptySeq
<1>3. CASE n # 0
  <2>1. 1 \in 1 .. Len(a) /\ n \in 1 .. Len(a)
    BY <1>1, <1>3
  <2> QED
    BY <1>1, <2>1, SubSeqProperties
<1> QED
  BY <1>2, <1>3

LEMMA SameBeginning ==
  ASSUME NEW S, NEW a \in Seq(S), NEW b \in Seq(S), NEW n \in Nat,
         n <= Len(a), n <= Len(b)
  PROVE  SubSeq(a, 1, n) = SubSeq(b, 1, n) <=> \A i \in 1 .. n : a[i] = b[i]
<1>1. /\ SubSeq(a, 1, n) \in Seq(S) /\ Len(SubSeq(a, 1, n)) = n
      /\ \A i \in 1 .. n : SubSeq(a, 1, n)[i] = a[i]
  BY Beginning
<1>2. /\ SubSeq(b, 1, n) \in Seq(S) /\ Len(SubSeq(b, 1, n)) = n
      /\ \A i \in 1 .. n : SubSeq(b, 1, n)[i] = b[i]
  BY Beginning
<1>3. ASSUME \A i \in 1 .. n : a[i] = b[i] PROVE SubSeq(a, 1, n) = SubSeq(b, 1, n)
  BY <1>1, <1>2, <1>3, SeqEqual
<1> QED
  BY <1>1, <1>2, <1>3

(* One text cut to what a wallet gets begins with the other exactly if     *)
(* they are the same as far as both go.                                    *)
LEMMA PrefixOfCut ==
  ASSUME NEW S, NEW a \in Seq(S), NEW b \in Seq(S), NEW j \in Nat, NEW k \in Nat,
         j <= Len(a), k <= Len(b)
  PROVE  IsPrefix(SubSeq(a, 1, j), SubSeq(b, 1, k)) <=>
           j <= k /\ \A i \in 1 .. j : a[i] = b[i]
<1> DEFINE s == SubSeq(a, 1, j)
           t == SubSeq(b, 1, k)
<1>1. s \in Seq(S) /\ Len(s) = j /\ \A i \in 1 .. j : s[i] = a[i]
  BY Beginning
<1>2. t \in Seq(S) /\ Len(t) = k /\ \A i \in 1 .. k : t[i] = b[i]
  BY Beginning
<1>3. IsPrefix(s, t) <=> j <= k /\ SubSeq(s, 1, j) = SubSeq(t, 1, j)
  BY <1>1, <1>2 DEF IsPrefix
<1> HIDE DEF s, t
<1>4. ASSUME j <= k
      PROVE  SubSeq(s, 1, j) = SubSeq(t, 1, j) <=> \A i \in 1 .. j : s[i] = t[i]
  BY <1>1, <1>2, <1>4, SameBeginning
<1>5. ASSUME j <= k, NEW i \in 1 .. j PROVE s[i] = a[i] /\ t[i] = b[i]
  BY <1>1, <1>2, <1>5
<1> QED
  BY <1>3, <1>4, <1>5 DEF s, t

LEMMA LeastOfTwo ==
  ASSUME NEW x \in Nat, NEW y \in Nat
  PROVE  LET n == Min({x, y}) IN n \in Nat /\ n \in {x, y} /\ n <= x /\ n <= y
<1>1. {x, y} \in SUBSET Nat /\ {x, y} # {}
  OBVIOUS
<1> QED
  BY <1>1, LeastNumber

LEMMA SameTextIs ==
  ASSUME NEW a, NEW b, IsSequence(a), IsSequence(b)
  PROVE  SameText(a, b) <=> TextsAgree(a, b)
<1> DEFINE S == ToSet(a) \cup ToSet(b)
           j == Min({Len(a), TextLen})
           k == Min({Len(b), TextLen})
           n == Min({Len(a), Len(b), TextLen})
<1>1. a \in Seq(S) /\ b \in Seq(S)
  BY SeqMonotonic DEF IsSequence
<1> HIDE DEF S
<1>2. Len(a) \in Nat /\ Len(b) \in Nat /\ TextLen \in Nat
  BY <1>1, ParityAssumption, LenProperties
<1>3. j \in Nat /\ j \in {Len(a), TextLen} /\ j <= Len(a) /\ j <= TextLen
  BY <1>2, LeastOfTwo
<1>4. k \in Nat /\ k \in {Len(b), TextLen} /\ k <= Len(b) /\ k <= TextLen
  BY <1>2, LeastOfTwo
<1>5. n \in {Len(a), Len(b), TextLen} /\ n <= Len(a) /\ n <= Len(b) /\ n <= TextLen
  BY <1>2, LeastOfThree
<1>6. SameText(a, b) <=> SubSeq(a, 1, n) = SubSeq(b, 1, n)
  BY DEF SameText
<1>7. TextsAgree(a, b) <=> \/ IsPrefix(SubSeq(a, 1, j), SubSeq(b, 1, k))
                           \/ IsPrefix(SubSeq(b, 1, k), SubSeq(a, 1, j))
  BY DEF TextsAgree
<1> HIDE DEF j, k, n
<1>8. n \in Nat /\ n \in {j, k} /\ n <= j /\ n <= k
  BY <1>2, <1>3, <1>4, <1>5
<1>9. SubSeq(a, 1, n) = SubSeq(b, 1, n) <=> \A i \in 1 .. n : a[i] = b[i]
  BY <1>1, <1>5, <1>8, SameBeginning
<1>10. IsPrefix(SubSeq(a, 1, j), SubSeq(b, 1, k)) <=> j <= k /\ \A i \in 1 .. j : a[i] = b[i]
  BY <1>1, <1>3, <1>4, PrefixOfCut
<1>11. IsPrefix(SubSeq(b, 1, k), SubSeq(a, 1, j)) <=> k <= j /\ \A i \in 1 .. k : b[i] = a[i]
  BY <1>1, <1>3, <1>4, PrefixOfCut
<1>12. CASE n = j
  BY <1>3, <1>4, <1>6, <1>7, <1>8, <1>9, <1>10, <1>11, <1>12
<1>13. CASE n = k
  BY <1>3, <1>4, <1>6, <1>7, <1>8, <1>9, <1>10, <1>11, <1>13
<1> QED
  BY <1>8, <1>12, <1>13

LEMMA SameInterval ==
  ASSUME NEW p \in Nat, NEW q \in Nat, 1 .. p = 1 .. q
  PROVE  p = q
<1>1. CASE p < q
  BY <1>1
<1>2. CASE q < p
  <2>1. p \in 1 .. p /\ p \notin 1 .. q
    BY <1>2
  <2> QED
    BY <2>1
<1> QED
  BY <1>1, <1>2

(* Rows agree exactly if their ids do and there is nothing to report.      *)
LEMMA RowsAgreeIs ==
  ASSUME NEW a, NEW b, CompactTx(a), CompactTx(b), NEW i
  PROVE  RowsAgree(a, b) <=> SameHash(a.hash, b.hash) /\ CompareTx(i, a, b) = {}
<1>1. ASSUME NEW l \in Lists
      PROVE  SameList(a.lists[l], b.lists[l]) <=>
               /\ DOMAIN a.lists[l] = DOMAIN b.lists[l]
               /\ \A e \in DOMAIN a.lists[l] : EntriesAgree(a.lists[l][e], b.lists[l][e])
  <2> DEFINE s == a.lists[l]
             t == b.lists[l]
  <2>1. /\ IsSequence(s) /\ \A e \in ToSet(s) : IsSequence(e.text)
        /\ IsSequence(t) /\ \A e \in ToSet(t) : IsSequence(e.text)
    BY DEF CompactTx
  <2> HIDE DEF s, t
  <2>2. Len(s) \in Nat /\ Len(t) \in Nat /\ DOMAIN s = 1 .. Len(s) /\ DOMAIN t = 1 .. Len(t)
    BY <2>1, LenProperties DEF IsSequence
  <2>3. Len(s) = Len(t) <=> DOMAIN s = DOMAIN t
    BY <2>2, SameInterval
  <2>4. ASSUME NEW e \in DOMAIN s, e \in DOMAIN t
        PROVE  SameEntry(s[e], t[e]) <=> EntriesAgree(s[e], t[e])
    <3>1. IsSequence(s[e].text) /\ IsSequence(t[e].text)
      BY <2>1, <2>4 DEF ToSet
    <3> QED
      BY <3>1, SameTextIs DEF SameEntry, EntriesAgree
  <2>5. SameList(s, t) <=> /\ DOMAIN s = DOMAIN t
                           /\ \A e \in DOMAIN s : EntriesAgree(s[e], t[e])
    BY <2>3, <2>4 DEF SameList
  <2> QED
    BY <2>5 DEF s, t
<1>2. CompareTx(i, a, b) = {} <=> \A l \in Lists : SameList(a.lists[l], b.lists[l])
  BY DEF CompareTx
<1> QED
  BY <1>1, <1>2 DEF RowsAgree

(* A row that agrees with one that has shielded material has some itself.  *)
LEMMA AgreeingShielded ==
  ASSUME NEW a, NEW b, CompactTx(a), CompactTx(b), RowsAgree(a, b), HasShielded(a)
  PROVE  HasShielded(b)
<1>1. PICK l \in Lists : a.lists[l] # << >>
  BY DEF HasShielded
<1>2. DOMAIN a.lists[l] = DOMAIN b.lists[l]
  BY DEF RowsAgree
<1>3. IsSequence(a.lists[l]) /\ IsSequence(b.lists[l])
  BY DEF CompactTx
<1>4. DOMAIN a.lists[l] # {}
  <2> DEFINE t == a.lists[l]
  <2>1. t \in Seq(ToSet(t)) /\ t # << >>
    BY <1>1, <1>3 DEF IsSequence
  <2> HIDE DEF t
  <2>2. Len(t) \in Nat /\ Len(t) # 0 /\ DOMAIN t = 1 .. Len(t)
    BY <2>1, EmptySeq, LenProperties
  <2>3. 1 \in DOMAIN t
    BY <2>2
  <2> QED
    BY <2>3 DEF t
<1>5. b.lists[l] # << >>
  BY <1>2, <1>4
<1> QED
  BY <1>5 DEF HasShielded
-----------------------------------------------------------------------------
(* The steps. *)

(* Rows of the two blocks are messages of the protocol. *)
LEMMA RowsOK ==
  ASSUME BlocksOK
  PROVE  /\ Len(ours.vtx) \in Nat /\ DOMAIN ours.vtx = 1 .. Len(ours.vtx)
         /\ Len(reference.vtx) \in Nat /\ DOMAIN reference.vtx = 1 .. Len(reference.vtx)
         /\ \A i \in DOMAIN ours.vtx :
              /\ CompactTx(ours.vtx[i]) /\ ours.vtx[i].hash \in DOMAIN Reversed
              /\ HasShielded(ours.vtx[i])
         /\ \A j \in DOMAIN reference.vtx :
              CompactTx(reference.vtx[j]) /\ reference.vtx[j].hash \in DOMAIN Reversed
<1> DEFINE s == ours.vtx
           t == reference.vtx
<1>1. /\ s \in Seq(ToSet(s)) /\ \A tx \in ToSet(s) : CompactTx(tx)
      /\ t \in Seq(ToSet(t)) /\ \A tx \in ToSet(t) : CompactTx(tx)
      /\ \A i \in DOMAIN s : HasShielded(s[i])
  BY DEF BlocksOK, CompactBlock, IsSequence
<1> HIDE DEF s, t
<1>2. /\ Len(s) \in Nat /\ DOMAIN s = 1 .. Len(s)
      /\ Len(t) \in Nat /\ DOMAIN t = 1 .. Len(t)
  BY <1>1, LenProperties
<1>3. /\ \A i \in DOMAIN s : CompactTx(s[i]) /\ s[i].hash \in DOMAIN Reversed
      /\ \A j \in DOMAIN t : CompactTx(t[j]) /\ t[j].hash \in DOMAIN Reversed
  BY <1>1 DEF ToSet, CompactTx
<1> QED
  BY <1>1, <1>2, <1>3 DEF s, t

(* The blocks stay as they are, and so does what depends on them alone.    *)
LEMMA BlocksStay ==
  ASSUME UNCHANGED << ours, reference >>
  PROVE  /\ BlocksOK' <=> BlocksOK
         /\ HeaderIssues' = HeaderIssues /\ SizeIssues' = SizeIssues
         /\ DistinctIds(ours.vtx)' <=> DistinctIds(ours.vtx)
         /\ DistinctIds(reference.vtx)' <=> DistinctIds(reference.vtx)
         /\ BlocksAgree' <=> BlocksAgree
<1> USE DEF BlocksOK, HeaderIssues, SizeIssues, BlocksAgree
<1>1. /\ BlocksOK' <=> BlocksOK
      /\ HeaderIssues' = HeaderIssues /\ SizeIssues' = SizeIssues
      /\ DistinctIds(ours.vtx)' <=> DistinctIds(ours.vtx)
      /\ DistinctIds(reference.vtx)' <=> DistinctIds(reference.vtx)
  BY DEF DistinctIds
<1>2. \A m : Pairing(m)' <=> Pairing(m)
  BY DEF Pairing
<1>3. BlocksAgree' <=> BlocksAgree
  BY <1>2
<1> QED
  BY <1>1, <1>3

LEMMA FiniteRows ==
  ASSUME BlocksOK
  PROVE  /\ IsFiniteSet(DOMAIN ours.vtx)
         /\ used \subseteq DOMAIN reference.vtx =>
              /\ IsFiniteSet(used) /\ IsFiniteSet(Unmatched)
              /\ Cardinality(used) \in Nat /\ Cardinality(Unmatched) \in Nat
<1>1. IsFiniteSet(DOMAIN ours.vtx) /\ IsFiniteSet(DOMAIN reference.vtx)
  BY RowsOK, FS_Interval
<1>2. used \subseteq DOMAIN reference.vtx => IsFiniteSet(used) /\ IsFiniteSet(Unmatched)
  BY <1>1, FS_Subset DEF Unmatched
<1> QED
  BY <1>1, <1>2, FS_CardinalityType

LEMMA InitMInv == ParityInit => MInv
<1> SUFFICES ASSUME ParityInit PROVE MInv
  OBVIOUS
<1>1. BlocksOK
  BY ParityAssumption DEF ParityInit, BlocksOK
<1>2. Unmatched = {} /\ Matched = {}
  BY DEF ParityInit, Unmatched, Matched
<1>3. ShapeOK
  BY <1>1, <1>2, RowsOK, FS_EmptySet DEF ShapeOK, ParityInit
<1>4. ReportedOK /\ QuietOK
  BY DEF ReportedOK, QuietOK, ParityInit
<1>5. \E m \in [Matched -> used] : Matching(m)
  <2> DEFINE m == [i \in {} |-> 0]
  <2>1. m \in [Matched -> used] /\ used = {}
    BY <1>2 DEF ParityInit
  <2>2. Matching(m)
    BY <1>2, <2>1 DEF Matching
  <2> QED
    BY <2>1, <2>2
<1> QED
  BY <1>1, <1>3, <1>4, <1>5 DEF MInv

(* Where rows of ours and of the reference agree in pairs, a row of ours   *)
(* fits the row it is paired with and no other.                            *)
LEMMA OnlyPartner ==
  ASSUME BlocksOK, DistinctIds(reference.vtx),
         NEW i \in DOMAIN ours.vtx, NEW j \in DOMAIN reference.vtx,
         NEW k \in DOMAIN reference.vtx,
         SameHash(ours.vtx[i].hash, reference.vtx[j].hash),
         SameHash(ours.vtx[i].hash, reference.vtx[k].hash)
  PROVE  j = k
<1>1. SameHash(reference.vtx[j].hash, reference.vtx[k].hash)
  BY RowsOK, SameHashFacts
<1> QED
  BY <1>1 DEF DistinctIds

LEMMA OnlyRow ==
  ASSUME BlocksOK, DistinctIds(ours.vtx),
         NEW i \in DOMAIN ours.vtx, NEW k \in DOMAIN ours.vtx,
         NEW j \in DOMAIN reference.vtx,
         SameHash(ours.vtx[i].hash, reference.vtx[j].hash),
         SameHash(ours.vtx[k].hash, reference.vtx[j].hash)
  PROVE  i = k
<1>1. SameHash(ours.vtx[i].hash, ours.vtx[k].hash)
  BY RowsOK, SameHashFacts
<1> QED
  BY <1>1 DEF DistinctIds

(* Blocks that agree have equally many rows with shielded material.        *)
LEMMA AgreeingHeaders ==
  ASSUME BlocksOK, BlocksAgree
  PROVE  HeaderIssues = {}
<1>1. PICK m \in [DOMAIN ours.vtx -> DOMAIN reference.vtx] : Pairing(m)
  BY DEF BlocksAgree
<1> DEFINE S == {i \in DOMAIN ours.vtx : HasShielded(ours.vtx[i])}
           T == {j \in DOMAIN reference.vtx : HasShielded(reference.vtx[j])}
<1>2. S = DOMAIN ours.vtx
  BY RowsOK
<1>3. \A i \in DOMAIN ours.vtx : m[i] \in T
  BY <1>1, RowsOK, AgreeingShielded DEF Pairing
<1>4. \A j \in T : j \in Range(m)
  BY <1>1 DEF Pairing
<1>5. m \in Bijection(S, T)
  <2>1. m \in [S -> T]
    BY <1>2, <1>3
  <2>2. \A i, k \in S : m[i] = m[k] => i = k
    BY <1>1, <1>2 DEF Pairing, IsInjective
  <2>3. \A j \in T : \E i \in S : m[i] = j
    BY <1>2, <1>4 DEF Range
  <2> QED
    BY <2>1, <2>2, <2>3, Fun_IsBij
<1>6. IsFiniteSet(S)
  BY <1>2, FiniteRows
<1>7. Cardinality(S) = Cardinality(T)
  BY <1>5, <1>6, FS_Bijection DEF ExistsBijection
<1>8. CountShielded(ours.vtx) = CountShielded(reference.vtx)
  BY <1>7 DEF CountShielded
<1> QED
  BY <1>8 DEF HeaderIssues, BlocksAgree

(* What else is reported is not that a row has no match. *)
LEMMA OtherIssues ==
  /\ \A k : << "vtx.hash", k >> \notin HeaderIssues \cup SizeIssues \cup LeftIssues
  /\ \A i, a, b, k : << "vtx.hash", k >> \notin CompareTx(i, a, b)
  BY DEF HeaderIssues, SizeIssues, LeftIssues, CompareTx, Lists, Trees

LEMMA CompareHeaderStep ==
  ASSUME MInv, CompareHeader
  PROVE  MInv'
<1>1. /\ step = "header" /\ step' = "rows" /\ issues' = HeaderIssues
      /\ UNCHANGED << ours, reference, next, used >>
      /\ next = 1 /\ used = {} /\ issues = {}
  BY DEF CompareHeader, MInv, ShapeOK
<1>2. /\ BlocksOK /\ BlocksOK' /\ HeaderIssues' = HeaderIssues
      /\ BlocksAgree' <=> BlocksAgree
  BY <1>1, BlocksStay DEF MInv
<1>3. Unmatched = {} /\ Unmatched' = {} /\ Matched' = {}
  BY <1>1, OtherIssues DEF Unmatched, Matched
<1>4. ShapeOK'
  BY <1>1, <1>3 DEF MInv, ShapeOK
<1>5. ReportedOK' /\ QuietOK'
  BY <1>1, <1>2, AgreeingHeaders DEF ReportedOK, QuietOK
<1>6. \E m \in [Matched' -> used'] : Matching(m)'
  <2> DEFINE m == [i \in {} |-> 0]
  <2>1. m \in [Matched' -> used'] /\ used' = {}
    BY <1>1, <1>3
  <2>2. Matching(m)'
    BY <1>3, <2>1 DEF Matching
  <2> QED
    BY <2>1, <2>2
<1> QED
  BY <1>2, <1>4, <1>5, <1>6 DEF MInv

LEMMA MatchRowStep ==
  ASSUME MInv, MatchRow
  PROVE  MInv'
<1> DEFINE j == Min(Candidates)
           found == CompareTx(next, ours.vtx[next], reference.vtx[j])
<1>1. /\ step = "rows" /\ next \in DOMAIN ours.vtx /\ Candidates # {}
      /\ used' = used \cup {j} /\ issues' = issues \cup found /\ next' = next + 1
      /\ UNCHANGED << ours, reference, step >>
  BY DEF MatchRow
<1>2. /\ BlocksOK /\ BlocksOK' /\ HeaderIssues' = HeaderIssues
      /\ DistinctIds(ours.vtx)' <=> DistinctIds(ours.vtx)
      /\ DistinctIds(reference.vtx)' <=> DistinctIds(reference.vtx)
      /\ BlocksAgree' <=> BlocksAgree
  BY <1>1, BlocksStay DEF MInv
<1>3. j \in DOMAIN reference.vtx /\ j \notin used
      /\ SameHash(ours.vtx[next].hash, reference.vtx[j].hash)
  <2>1. Candidates \in SUBSET Nat
    BY <1>2, RowsOK DEF Candidates
  <2>2. j \in Candidates
    BY <1>1, <2>1, LeastNumber
  <2> QED
    BY <2>2 DEF Candidates
<1> HIDE DEF j
<1>4. /\ next \in 1 .. Len(ours.vtx) /\ Len(ours.vtx) \in Nat
      /\ used \subseteq DOMAIN reference.vtx /\ Unmatched \subseteq 1 .. next - 1
      /\ Cardinality(used) + Cardinality(Unmatched) = next - 1
  BY <1>1, <1>2, RowsOK DEF MInv, ShapeOK
<1>5. Unmatched' = Unmatched
  BY <1>1, OtherIssues DEF Unmatched
<1>6. next \notin Matched /\ Matched' = Matched \cup {next}
  <2>1. next \notin Unmatched /\ next \notin 1 .. next - 1
    BY <1>4
  <2>2. 1 .. (next + 1) - 1 = (1 .. next - 1) \cup {next}
    BY <1>4
  <2> QED
    BY <1>1, <1>5, <2>1, <2>2 DEF Matched
<1>7. ShapeOK'
  <2>1. next' \in 1 .. Len(ours.vtx) + 1 /\ Unmatched' \subseteq 1 .. next' - 1
    BY <1>1, <1>4, <1>5
  <2>2. /\ Cardinality(used) \in Nat /\ Cardinality(Unmatched) \in Nat
        /\ Cardinality(used') = Cardinality(used) + 1
    BY <1>1, <1>2, <1>3, <1>4, FiniteRows, FS_AddElement
  <2>3. Cardinality(used') + Cardinality(Unmatched') = next' - 1
    BY <1>1, <1>4, <1>5, <2>2
  <2> QED
    BY <1>1, <1>3, <1>4, <2>1, <2>3 DEF MInv, ShapeOK
<1>8. ReportedOK'
  BY <1>1, <1>2 DEF MInv, ReportedOK
<1>9. QuietOK'
  <2> SUFFICES ASSUME DistinctIds(ours.vtx), DistinctIds(reference.vtx), BlocksAgree
               PROVE  issues' = {}
    BY <1>2 DEF QuietOK
  <2>1. PICK p \in [DOMAIN ours.vtx -> DOMAIN reference.vtx] : Pairing(p)
    BY DEF BlocksAgree
  <2>2. p[next] \in DOMAIN reference.vtx /\ RowsAgree(ours.vtx[next], reference.vtx[p[next]])
    BY <1>1, <2>1 DEF Pairing
  <2>3. p[next] = j
    BY <1>1, <1>2, <1>3, <2>2, OnlyPartner DEF RowsAgree
  <2>4. found = {}
    BY <1>1, <1>2, <1>3, <2>2, <2>3, RowsOK, RowsAgreeIs
  <2> QED
    BY <1>1, <2>4 DEF MInv, QuietOK
<1>10. \E m \in [Matched' -> used'] : Matching(m)'
  <2>1. PICK m \in [Matched -> used] : Matching(m)
    BY DEF MInv
  <2> DEFINE n == [i \in Matched \cup {next} |-> IF i = next THEN j ELSE m[i]]
  <2>2. n \in [Matched' -> used']
    BY <1>1, <1>6
  <2>3. n[next] = j /\ \A i \in Matched : n[i] = m[i] /\ m[i] \in used
    BY <1>6
  <2>4. \A i, k \in Matched' : n[i] = n[k] => i = k
    BY <1>3, <1>6, <2>1, <2>3 DEF Matching
  <2>5. \A h \in used' : \E i \in Matched' : n[i] = h
    BY <1>1, <1>6, <2>1, <2>3 DEF Matching
  <2> HIDE DEF n
  <2>6. \A i \in Matched' :
          /\ SameHash(ours.vtx[i].hash, reference.vtx[n[i]].hash)
          /\ CompareTx(i, ours.vtx[i], reference.vtx[n[i]]) \subseteq issues'
    BY <1>1, <1>3, <1>6, <2>1, <2>3 DEF Matching
  <2>7. PICK q : q = n
    OBVIOUS
  <2>8. q \in [Matched' -> used'] /\ Matching(q)'
    BY <1>1, <2>2, <2>4, <2>5, <2>6, <2>7 DEF Matching
  <2> QED
    BY <2>8
<1> QED
  BY <1>2, <1>7, <1>8, <1>9, <1>10 DEF MInv

LEMMA NoMatchStep ==
  ASSUME MInv, NoMatch
  PROVE  MInv'
<1>1. /\ step = "rows" /\ next \in DOMAIN ours.vtx /\ Candidates = {}
      /\ issues' = issues \cup {<< "vtx.hash", next >>} /\ next' = next + 1
      /\ UNCHANGED << ours, reference, step, used >>
  BY DEF NoMatch
<1>2. /\ BlocksOK /\ BlocksOK' /\ HeaderIssues' = HeaderIssues
      /\ DistinctIds(ours.vtx)' <=> DistinctIds(ours.vtx)
      /\ DistinctIds(reference.vtx)' <=> DistinctIds(reference.vtx)
      /\ BlocksAgree' <=> BlocksAgree
  BY <1>1, BlocksStay DEF MInv
<1>3. /\ next \in 1 .. Len(ours.vtx) /\ Len(ours.vtx) \in Nat
      /\ used \subseteq DOMAIN reference.vtx /\ Unmatched \subseteq 1 .. next - 1
      /\ Cardinality(used) + Cardinality(Unmatched) = next - 1
  BY <1>1, <1>2, RowsOK DEF MInv, ShapeOK
<1>4. Unmatched' = Unmatched \cup {next} /\ next \notin Unmatched
  <2>1. next \notin 1 .. next - 1
    BY <1>3
  <2> QED
    BY <1>1, <1>3, <2>1 DEF Unmatched
<1>5. Matched' = Matched
  <2>1. 1 .. (next + 1) - 1 = (1 .. next - 1) \cup {next} /\ next \notin 1 .. next - 1
    BY <1>3
  <2> QED
    BY <1>1, <1>4, <2>1 DEF Matched
<1>6. PICK m \in [Matched -> used] : Matching(m)
  BY DEF MInv
<1>7. ShapeOK'
  <2>1. next' \in 1 .. Len(ours.vtx) + 1 /\ Unmatched' \subseteq 1 .. next' - 1
    <3>1. 1 .. (next + 1) - 1 = (1 .. next - 1) \cup {next}
      BY <1>3
    <3>2. next + 1 \in 1 .. Len(ours.vtx) + 1
      BY <1>3
    <3> QED
      BY <1>1, <1>3, <1>4, <3>1, <3>2
  <2>2. /\ Cardinality(used) \in Nat /\ Cardinality(Unmatched) \in Nat
        /\ Cardinality(Unmatched') = Cardinality(Unmatched) + 1
    BY <1>2, <1>3, <1>4, FiniteRows, FS_AddElement
  <2>3. Cardinality(used') + Cardinality(Unmatched') = next' - 1
    BY <1>1, <1>3, <2>2
  <2> QED
    BY <1>1, <1>3, <2>1, <2>3 DEF MInv, ShapeOK
<1>8. ReportedOK'
  BY <1>1, <1>2 DEF MInv, ReportedOK
<1>9. QuietOK'
  <2> SUFFICES ASSUME DistinctIds(ours.vtx), DistinctIds(reference.vtx), BlocksAgree
               PROVE  FALSE
    BY <1>2 DEF QuietOK
  <2>1. PICK p \in [DOMAIN ours.vtx -> DOMAIN reference.vtx] : Pairing(p)
    BY DEF BlocksAgree
  <2>2. /\ p[next] \in DOMAIN reference.vtx
        /\ SameHash(ours.vtx[next].hash, reference.vtx[p[next]].hash)
    BY <1>1, <2>1 DEF Pairing, RowsAgree
  <2>3. p[next] \in used
    BY <1>1, <2>2 DEF Candidates
  <2>4. PICK i \in Matched : /\ m[i] = p[next]
                             /\ SameHash(ours.vtx[i].hash, reference.vtx[p[next]].hash)
    BY <1>6, <2>3 DEF Matching
  <2>5. i \in 1 .. next - 1
    BY DEF Matched
  <2>6. i \in DOMAIN ours.vtx /\ i # next
    BY <1>2, <1>3, <2>5, RowsOK
  <2> QED
    BY <1>1, <1>2, <2>2, <2>4, <2>6, OnlyRow
<1>10. m \in [Matched' -> used'] /\ Matching(m)'
  BY <1>1, <1>5, <1>6 DEF Matching
<1> QED
  BY <1>2, <1>7, <1>8, <1>9, <1>10 DEF MInv

(* Once every row has been looked at and none is without a match. *)
LEMMA AllMatched ==
  ASSUME BlocksOK, ShapeOK, next \notin DOMAIN ours.vtx, issues = {}
  PROVE  Matched = DOMAIN ours.vtx
<1>1. next = Len(ours.vtx) + 1 /\ Len(ours.vtx) \in Nat /\ DOMAIN ours.vtx = 1 .. Len(ours.vtx)
  BY RowsOK DEF ShapeOK
<1>2. Unmatched = {}
  BY DEF Unmatched
<1>3. 1 .. next - 1 = DOMAIN ours.vtx
  BY <1>1
<1> QED
  BY <1>2, <1>3 DEF Matched

LEMMA LeftoverStep ==
  ASSUME MInv, Leftover
  PROVE  MInv'
<1>1. /\ step = "rows" /\ next \notin DOMAIN ours.vtx /\ step' = "sizes"
      /\ issues' = issues \cup LeftIssues
      /\ UNCHANGED << ours, reference, next, used >>
  BY DEF Leftover, LeftIssues
<1>2. /\ BlocksOK /\ BlocksOK' /\ HeaderIssues' = HeaderIssues
      /\ DistinctIds(ours.vtx)' <=> DistinctIds(ours.vtx)
      /\ DistinctIds(reference.vtx)' <=> DistinctIds(reference.vtx)
      /\ BlocksAgree' <=> BlocksAgree
  BY <1>1, BlocksStay DEF MInv
<1>3. Unmatched' = Unmatched /\ Matched' = Matched /\ LeftIssues' = LeftIssues
  BY <1>1, OtherIssues DEF Unmatched, Matched, LeftIssues
<1>4. PICK m \in [Matched -> used] : Matching(m)
  BY DEF MInv
<1>5. ShapeOK'
  BY <1>1, <1>3 DEF MInv, ShapeOK
<1>6. ReportedOK'
  BY <1>1, <1>2, <1>3 DEF MInv, ReportedOK
<1>7. QuietOK'
  <2> SUFFICES ASSUME DistinctIds(ours.vtx), DistinctIds(reference.vtx), BlocksAgree
               PROVE  issues' = {}
    BY <1>2 DEF QuietOK
  <2>1. PICK p \in [DOMAIN ours.vtx -> DOMAIN reference.vtx] : Pairing(p)
    BY DEF BlocksAgree
  <2>2. issues = {}
    BY DEF MInv, QuietOK
  <2>3. Matched = DOMAIN ours.vtx
    BY <1>1, <1>2, <2>2, AllMatched DEF MInv
  <2>4. ASSUME NEW i \in DOMAIN ours.vtx PROVE p[i] \in used
    <3>1. /\ m[i] \in used /\ m[i] \in DOMAIN reference.vtx
          /\ SameHash(ours.vtx[i].hash, reference.vtx[m[i]].hash)
      BY <1>4, <2>3 DEF Matching, MInv, ShapeOK
    <3>2. /\ p[i] \in DOMAIN reference.vtx
          /\ SameHash(ours.vtx[i].hash, reference.vtx[p[i]].hash)
      BY <2>1 DEF Pairing, RowsAgree
    <3>3. p[i] = m[i]
      BY <1>2, <3>1, <3>2, OnlyPartner
    <3> QED
      BY <3>1, <3>3
  <2>5. Range(p) \subseteq used
    BY <2>4 DEF Range
  <2>6. LeftIssues = {}
    BY <2>1, <2>5 DEF LeftIssues, Pairing
  <2> QED
    BY <1>1, <2>2, <2>6
<1>8. m \in [Matched' -> used'] /\ Matching(m)'
  BY <1>1, <1>3, <1>4 DEF Matching
<1> QED
  BY <1>2, <1>5, <1>6, <1>7, <1>8 DEF MInv

(* A size is not reported exactly if the two are equal or one is 0.        *)
LEMMA SizesAgreeIs ==
  ASSUME BlocksOK
  PROVE  SizeIssues = {} <=>
           \A a \in ToSet(ours.sizes), b \in ToSet(reference.sizes), t \in Trees :
             a[t] = b[t] \/ a[t] * b[t] = 0
<1>1. ASSUME NEW a \in ToSet(ours.sizes), NEW b \in ToSet(reference.sizes), NEW t \in Trees
      PROVE  a[t] * b[t] = 0 <=> a[t] = 0 \/ b[t] = 0
  <2>1. a[t] \in Nat /\ b[t] \in Nat
    BY DEF BlocksOK, CompactBlock
  <2>2. \A x, y \in Nat : x * y = 0 <=> x = 0 \/ y = 0
    OBVIOUS
  <2> QED
    BY <2>1, <2>2
<1>2. SizeIssues = {} <=>
        \A a \in ToSet(ours.sizes), b \in ToSet(reference.sizes), t \in Trees :
          ~(a[t] # 0 /\ b[t] # 0 /\ a[t] # b[t])
  <2> DEFINE differ == {k \in Trees : \E a \in ToSet(ours.sizes), b \in ToSet(reference.sizes) :
                                        a[k] # 0 /\ b[k] # 0 /\ a[k] # b[k]}
  <2>1. SizeIssues = {<< t, 0 >> : t \in differ}
    BY DEF SizeIssues
  <2>2. {<< t, 0 >> : t \in differ} = {} <=> differ = {}
    <3> HIDE DEF differ
    <3> QED
      OBVIOUS
  <2> QED
    BY <2>1, <2>2
<1> QED
  BY <1>1, <1>2

LEMMA CompareSizesStep ==
  ASSUME MInv, CompareSizes
  PROVE  MInv'
<1>1. /\ step = "sizes" /\ step' = "done" /\ issues' = issues \cup SizeIssues
      /\ UNCHANGED << ours, reference, next, used >>
  BY DEF CompareSizes
<1>2. /\ BlocksOK /\ BlocksOK' /\ HeaderIssues' = HeaderIssues /\ SizeIssues' = SizeIssues
      /\ DistinctIds(ours.vtx)' <=> DistinctIds(ours.vtx)
      /\ DistinctIds(reference.vtx)' <=> DistinctIds(reference.vtx)
      /\ BlocksAgree' <=> BlocksAgree
  BY <1>1, BlocksStay DEF MInv
<1>3. Unmatched' = Unmatched /\ Matched' = Matched /\ LeftIssues' = LeftIssues
  BY <1>1, OtherIssues DEF Unmatched, Matched, LeftIssues
<1>4. PICK m \in [Matched -> used] : Matching(m)
  BY DEF MInv
<1>5. ShapeOK'
  BY <1>1, <1>3 DEF MInv, ShapeOK
<1>6. ReportedOK'
  BY <1>1, <1>2, <1>3 DEF MInv, ReportedOK
<1>7. QuietOK'
  <2>1. BlocksAgree => SizeIssues = {}
    BY <1>2, SizesAgreeIs DEF BlocksAgree
  <2> QED
    BY <1>1, <1>2, <2>1 DEF MInv, QuietOK
<1>8. m \in [Matched' -> used'] /\ Matching(m)'
  BY <1>1, <1>3, <1>4 DEF Matching
<1> QED
  BY <1>2, <1>5, <1>6, <1>7, <1>8 DEF MInv

LEMMA StepMInv == MInv /\ [ParityNext]_parityVars => MInv'
<1> SUFFICES ASSUME MInv, [ParityNext]_parityVars PROVE MInv'
  OBVIOUS
<1>1. CASE UNCHANGED parityVars
  <2>1. UNCHANGED << ours, reference, step, next, used, issues >>
    BY <1>1 DEF parityVars
  <2>2. /\ BlocksOK' /\ HeaderIssues' = HeaderIssues /\ SizeIssues' = SizeIssues
        /\ DistinctIds(ours.vtx)' <=> DistinctIds(ours.vtx)
        /\ DistinctIds(reference.vtx)' <=> DistinctIds(reference.vtx)
        /\ BlocksAgree' <=> BlocksAgree
    BY <2>1, BlocksStay DEF MInv
  <2>3. Unmatched' = Unmatched /\ Matched' = Matched /\ LeftIssues' = LeftIssues
    BY <2>1 DEF Unmatched, Matched, LeftIssues
  <2>4. ShapeOK' /\ ReportedOK' /\ QuietOK'
    BY <2>1, <2>2, <2>3 DEF MInv, ShapeOK, ReportedOK, QuietOK
  <2>5. \E m \in [Matched' -> used'] : Matching(m)'
    BY <2>1, <2>3 DEF MInv, Matching
  <2> QED
    BY <2>2, <2>4, <2>5 DEF MInv
<1>2. CASE CompareHeader
  BY <1>2, CompareHeaderStep
<1>3. CASE MatchRow
  BY <1>3, MatchRowStep
<1>4. CASE NoMatch
  BY <1>4, NoMatchStep
<1>5. CASE Leftover
  BY <1>5, LeftoverStep
<1>6. CASE CompareSizes
  BY <1>6, CompareSizesStep
<1> QED
  BY <1>1, <1>2, <1>3, <1>4, <1>5, <1>6 DEF ParityNext

LEMMA NothingReported == MInv => NoFalseAgreement
<1> SUFFICES ASSUME MInv, step = "done", issues = {} PROVE BlocksAgree
  BY DEF NoFalseAgreement
<1>1. BlocksOK /\ HeaderIssues = {} /\ LeftIssues = {} /\ SizeIssues = {}
  BY DEF MInv, ReportedOK
<1>2. PICK m \in [Matched -> used] : Matching(m)
  BY DEF MInv
<1>3. Matched = DOMAIN ours.vtx
  BY AllMatched DEF MInv, ShapeOK
<1>4. used \subseteq DOMAIN reference.vtx
  BY DEF MInv, ShapeOK
<1>5. m \in [DOMAIN ours.vtx -> DOMAIN reference.vtx]
  BY <1>3, <1>4
<1>6. Pairing(m)
  <2>1. IsInjective(m)
    BY <1>2, <1>3 DEF Matching, IsInjective
  <2>2. ASSUME NEW i \in DOMAIN m PROVE RowsAgree(ours.vtx[i], reference.vtx[m[i]])
    <3>1. i \in DOMAIN ours.vtx /\ m[i] \in DOMAIN reference.vtx
      BY <1>5
    <3>2. /\ SameHash(ours.vtx[i].hash, reference.vtx[m[i]].hash)
          /\ CompareTx(i, ours.vtx[i], reference.vtx[m[i]]) = {}
      BY <1>2, <1>3, <3>1 DEF Matching
    <3> QED
      BY <1>1, <3>1, <3>2, RowsOK, RowsAgreeIs
  <2>3. used \subseteq Range(m)
    BY <1>2 DEF Matching, Range
  <2>4. \A j \in DOMAIN reference.vtx \ Range(m) : ~HasShielded(reference.vtx[j])
    BY <1>1, <2>3 DEF LeftIssues
  <2> QED
    BY <2>1, <2>2, <2>4 DEF Pairing
<1>7. /\ ours.height = reference.height /\ ours.time = reference.time
      /\ SameHash(ours.hash, reference.hash)
      /\ SameHash(ours.prev_hash, reference.prev_hash)
  BY <1>1 DEF HeaderIssues
<1>8. \A a \in ToSet(ours.sizes), b \in ToSet(reference.sizes), t \in Trees :
        a[t] = b[t] \/ a[t] * b[t] = 0
  BY <1>1, SizesAgreeIs
<1> QED
  BY <1>5, <1>6, <1>7, <1>8 DEF BlocksAgree
-----------------------------------------------------------------------------
(* The theorems. *)

(* The invariant holds in every state of every comparison.                 *)
THEOREM ParityAlways == ParitySpec => []MInv
  BY InitMInv, StepMInv, PTL DEF ParitySpec

(* compare_compact uses each row of the reference for one row of ours, and *)
(* each row of ours it has looked at is matched or reported.               *)
THEOREM ParityTypeCorrect == ParitySpec => []ParityTypeOK
<1>1. MInv => ParityTypeOK
  BY DEF MInv, ShapeOK, Unmatched, ParityTypeOK
<1> QED
  BY <1>1, ParityAlways, PTL

(* compare_compact finds nothing only in blocks that agree: their rows can *)
(* be paired one to one so that nothing a wallet needs differs.            *)
THEOREM AgreementIsTrue == ParitySpec => []NoFalseAgreement
  BY NothingReported, ParityAlways, PTL

(* compare_compact finds nothing in blocks that agree: taking the first    *)
(* row that fits is never a mistake.                                       *)
THEOREM IssuesAreTrue == ParitySpec => []NoFalseIssue
<1>1. MInv => NoFalseIssue
  BY DEF MInv, QuietOK, NoFalseIssue
<1> QED
  BY <1>1, ParityAlways, PTL
=============================================================================
