----------------------------- MODULE BlockCache -----------------------------
(***************************************************************************)
(* What the compact-block store promises those who read it, whatever the   *)
(* node does: the stored heights never have a gap, a stored block is never *)
(* replaced in place, the store grows at its top and shrinks from its top  *)
(* only, and a block appended on a row that knows its tree sizes carries   *)
(* those sizes plus its own commitments.                                   *)
(*                                                                         *)
(* The actions relate rows and rows' without naming what is stored next:   *)
(* which block comes next is the node's business.                          *)
(***************************************************************************)
EXTENDS TreeSizes

CONSTANTS Block, NewNotes

VARIABLE rows

Contiguous ==
  \A h, k \in DOMAIN rows : \A i \in h .. k : i \in DOMAIN rows

Init == Contiguous

(* Every row there was is still there, as it was. *)
Keeps == \A h \in DOMAIN rows : h \in DOMAIN rows' /\ rows'[h] = rows[h]

(* One block on top of the store, or anywhere when the store is empty. *)
Append ==
  \E h \in DOMAIN rows' \ DOMAIN rows :
    /\ DOMAIN rows' = DOMAIN rows \cup {h}
    /\ Keeps
    /\ \A k \in DOMAIN rows : k < h
    /\ DOMAIN rows # {} => h - 1 \in DOMAIN rows
    /\ h - 1 \in DOMAIN rows /\ ~IsZero(rows[h - 1].sizes) =>
         rows'[h].sizes =
           SaturatingAdd(rows[h - 1].sizes, NewNotes[rows'[h].block])

(* The rows above some height go, the others stay as they were. *)
Rollback ==
  /\ DOMAIN rows' \subseteq DOMAIN rows
  /\ \A h \in DOMAIN rows' :
       /\ rows'[h] = rows[h]
       /\ \A k \in DOMAIN rows : k < h => k \in DOMAIN rows'

Next == Append \/ Rollback

Spec == Init /\ [][Next]_rows
=============================================================================
