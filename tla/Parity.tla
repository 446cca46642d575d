------------------------------- MODULE Parity -------------------------------
(***************************************************************************)
(* compare_compact of src/parity.rs: does a compact block of ours say what *)
(* the block of a reference streamer says?  Hashes may be in either byte   *)
(* order, rows in any order, and rows without shielded material may be     *)
(* missing.                                                                *)
(*                                                                         *)
(* A hash is a value with a reversal.  A row is a hash and four lists; an  *)
(* entry of a list is a key, which stands for the fields that must be      *)
(* equal, and a ciphertext.  An issue names a field and a place in it.     *)
(***************************************************************************)
EXTENDS Naturals, Sequences, FiniteSets, FiniteSetsExt, SequencesExt, Functions

CONSTANTS
  Reversed,        (* a hash, to the hash with its bytes in reverse order    *)
  TextLen,         (* the ciphertext bytes a wallet gets (52)                *)
  Pairs            (* the blocks compared: records [ours, reference]         *)

Lists == {"spends", "outputs", "actions", "ironwood_actions"}

Trees == {"sapling", "orchard", "ironwood"}

HasShielded(tx) == \E l \in Lists : tx.lists[l] # << >>

IsSequence(s) == s \in Seq(ToSet(s))

(* The messages of the protocol.  sizes is << >> or << [Trees -> Nat] >>:  *)
(* the optional chain_metadata.                                            *)
CompactTx(tx) ==
  /\ tx.hash \in DOMAIN Reversed
  /\ \A l \in Lists : /\ IsSequence(tx.lists[l])
                      /\ \A e \in ToSet(tx.lists[l]) : IsSequence(e.text)

CompactBlock(b) ==
  /\ b.hash \in DOMAIN Reversed /\ b.prev_hash \in DOMAIN Reversed
  /\ IsSequence(b.vtx) /\ \A tx \in ToSet(b.vtx) : CompactTx(tx)
  /\ \A s \in ToSet(b.sizes) : s \in [Trees -> Nat]

(* Reversing is an involution, and raw_block_to_compact keeps no row that  *)
(* has no shielded material.                                               *)
ASSUME ParityAssumption ==
  /\ TextLen \in Nat
  /\ \A x \in DOMAIN Reversed :
       Reversed[x] \in DOMAIN Reversed /\ Reversed[Reversed[x]] = x
  /\ \A p \in Pairs : /\ CompactBlock(p.ours) /\ CompactBlock(p.reference)
                      /\ \A i \in DOMAIN p.ours.vtx : HasShielded(p.ours.vtx[i])

(* bytes_eq_or_rev *)
SameHash(x, y) == x = y \/ Reversed[x] = y

(* As much as both have, and no more than TextLen. *)
SameText(a, b) ==
  LET n == Min({Len(a), Len(b), TextLen})
  IN  SubSeq(a, 1, n) = SubSeq(b, 1, n)

SameEntry(a, b) == a.key = b.key /\ SameText(a.text, b.text)

SameList(a, b) == Len(a) = Len(b) /\ \A i \in DOMAIN a : SameEntry(a[i], b[i])

(* Mutant of CompareTx: written before there was a third pool. *)
CompareTxBeforeIronwood(i, tx, rtx) ==
  {<< l, i >> : l \in {k \in Lists \ {"ironwood_actions"} :
                         ~SameList(tx.lists[k], rtx.lists[k])}}

(* compare_tx: the lists of row i that differ. *)
CompareTx(i, tx, rtx) ==
  {<< l, i >> : l \in {k \in Lists : ~SameList(tx.lists[k], rtx.lists[k])}}

CountShielded(vtx) == Cardinality({i \in DOMAIN vtx : HasShielded(vtx[i])})
-----------------------------------------------------------------------------
VARIABLES
  ours, reference, (* the two blocks                                         *)
  step,            (* what is compared next                                  *)
  next,            (* the row of ours to match                               *)
  used,            (* the rows of the reference that are matched             *)
  issues

parityVars == << ours, reference, step, next, used, issues >>

ParityInit ==
  /\ \E p \in Pairs : ours = p.ours /\ reference = p.reference
  /\ step = "header"
  /\ next = 1
  /\ used = {}
  /\ issues = {}

HeaderIssues ==
  {<< f, 0 >> : f \in {k \in {"height", "time"} : ours[k] # reference[k]}} \cup
  {<< f, 0 >> : f \in {k \in {"hash", "prev_hash"} : ~SameHash(ours[k], reference[k])}} \cup
  (IF CountShielded(ours.vtx) = CountShielded(reference.vtx)
   THEN {} ELSE {<< "vtx.shielded.len", 0 >>})

CompareHeader ==
  /\ step = "header"
  /\ issues' = HeaderIssues
  /\ step' = "rows"
  /\ UNCHANGED << ours, reference, next, used >>

(* Mutant of Candidates: a row is matched as often as it fits. *)
CandidatesAgain ==
  {j \in DOMAIN reference.vtx :
     SameHash(ours.vtx[next].hash, reference.vtx[j].hash)}

(* The rows of the reference that row next may be matched with. *)
Candidates ==
  {j \in DOMAIN reference.vtx \ used :
     SameHash(ours.vtx[next].hash, reference.vtx[j].hash)}

MatchRow ==
  /\ step = "rows" /\ next \in DOMAIN ours.vtx
  /\ Candidates # {}
  /\ used' = used \cup {Min(Candidates)}
  /\ issues' = issues \cup
       CompareTx(next, ours.vtx[next], reference.vtx[Min(Candidates)])
  /\ next' = next + 1
  /\ UNCHANGED << ours, reference, step >>

NoMatch ==
  /\ step = "rows" /\ next \in DOMAIN ours.vtx
  /\ Candidates = {}
  /\ issues' = issues \cup {<< "vtx.hash", next >>}
  /\ next' = next + 1
  /\ UNCHANGED << ours, reference, step, used >>

(* Mutant of Leftover: the empty rows of the reference are asked for, too. *)
LeftoverOfAllRows ==
  /\ step = "rows" /\ next \notin DOMAIN ours.vtx
  /\ issues' = issues \cup
       {<< "reference.vtx.hash", j >> : j \in DOMAIN reference.vtx \ used}
  /\ step' = "sizes"
  /\ UNCHANGED << ours, reference, next, used >>

Leftover ==
  /\ step = "rows" /\ next \notin DOMAIN ours.vtx
  /\ issues' = issues \cup
       {<< "reference.vtx.hash", j >> :
          j \in {k \in DOMAIN reference.vtx \ used : HasShielded(reference.vtx[k])}}
  /\ step' = "sizes"
  /\ UNCHANGED << ours, reference, next, used >>

(* A size of 0 is a size that is not known. *)
SizeIssues ==
  {<< t, 0 >> : t \in {k \in Trees :
     \E a \in ToSet(ours.sizes), b \in ToSet(reference.sizes) :
       a[k] # 0 /\ b[k] # 0 /\ a[k] # b[k]}}

CompareSizes ==
  /\ step = "sizes"
  /\ issues' = issues \cup SizeIssues
  /\ step' = "done"
  /\ UNCHANGED << ours, reference, next, used >>

ParityNext == CompareHeader \/ MatchRow \/ NoMatch \/ Leftover \/ CompareSizes

ParitySpec == ParityInit /\ [][ParityNext]_parityVars
-----------------------------------------------------------------------------
(* What agreement means, without an order of comparing.                    *)

TextsAgree(a, b) ==
  LET cut(text) == SubSeq(text, 1, Min({Len(text), TextLen}))
  IN  IsPrefix(cut(a), cut(b)) \/ IsPrefix(cut(b), cut(a))

EntriesAgree(a, b) == a.key = b.key /\ TextsAgree(a.text, b.text)

RowsAgree(a, b) ==
  /\ SameHash(a.hash, b.hash)
  /\ \A l \in Lists :
       /\ DOMAIN a.lists[l] = DOMAIN b.lists[l]
       /\ \A i \in DOMAIN a.lists[l] : EntriesAgree(a.lists[l][i], b.lists[l][i])

(* m pairs each row of ours with a row of the reference of its own. *)
Pairing(m) ==
  /\ IsInjective(m)
  /\ \A i \in DOMAIN m : RowsAgree(ours.vtx[i], reference.vtx[m[i]])
  /\ \A j \in DOMAIN reference.vtx \ Range(m) : ~HasShielded(reference.vtx[j])

BlocksAgree ==
  /\ ours.height = reference.height /\ ours.time = reference.time
  /\ SameHash(ours.hash, reference.hash)
  /\ SameHash(ours.prev_hash, reference.prev_hash)
  /\ \E m \in [DOMAIN ours.vtx -> DOMAIN reference.vtx] : Pairing(m)
  /\ \A a \in ToSet(ours.sizes), b \in ToSet(reference.sizes), t \in Trees :
       a[t] = b[t] \/ a[t] * b[t] = 0

(* No two rows of a block have one transaction id, in whatever byte order. *)
DistinctIds(vtx) ==
  \A i, j \in DOMAIN vtx : SameHash(vtx[i].hash, vtx[j].hash) => i = j
-----------------------------------------------------------------------------
(* Properties. *)

(* Rows of the reference are matched with distinct rows of ours that were  *)
(* looked at, and each row looked at is matched or an issue.               *)
ParityTypeOK ==
  /\ step \in {"header", "rows", "sizes", "done"}
  /\ next \in 1 .. Len(ours.vtx) + 1
  /\ used \subseteq DOMAIN reference.vtx
  /\ Cardinality(used) +
       Cardinality({i \in DOMAIN ours.vtx : << "vtx.hash", i >> \in issues}) = next - 1

(* No issue is reported only if the blocks agree: the rows can be paired   *)
(* one to one, whatever the reference sends, repeated rows included.       *)
NoFalseAgreement == step = "done" /\ issues = {} => BlocksAgree

(* Blocks that agree are reported without an issue, in whatever order the  *)
(* rows come, in whatever byte order each hash is and with any number of   *)
(* empty rows between: matching the first fitting row is never a mistake.  *)
NoFalseIssue ==
  step = "done" /\ DistinctIds(ours.vtx) /\ DistinctIds(reference.vtx) =>
    (BlocksAgree => issues = {})
=============================================================================
