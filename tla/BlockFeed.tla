------------------------------ MODULE BlockFeed ------------------------------
(***************************************************************************)
(* What get_block_range promises its caller, apart from tasks, channels    *)
(* and locks.  Every height of the range is looked up once, in order, in   *)
(* the store as it is at that moment; the caller is given what was found,  *)
(* in that order; the first height that has no block to give ends the      *)
(* response as a failure; and a response that ends well has given a block  *)
(* for every height.                                                       *)
(*                                                                         *)
(* rows is not this module's to change: no action constrains rows'.        *)
(***************************************************************************)
EXTENDS Integers, Sequences

CONSTANTS Ranges, None

VARIABLES
  rows,            (* the store                                              *)
  range,           (* the range asked for                                    *)
  taken,           (* what was found, of the heights looked up so far        *)
  got,             (* what the caller has been given                         *)
  phase            (* how the call stands                                    *)

feedVars == <<range, taken, got, phase>>

(* What looking up height h may find now. *)
Findings(h) ==
  {[height |-> h, status |-> "internal", row |-> None]} \cup
    IF h \in DOMAIN rows
    THEN {[height |-> h, status |-> "ok", row |-> rows[h]]}
    ELSE {[height |-> h, status |-> "not_found", row |-> None]}

Idle == range = None /\ taken = << >> /\ got = << >> /\ phase = "none"

Init == Idle

Open ==
  /\ Idle
  /\ range' \in Ranges
  /\ phase' = "reading"
  /\ UNCHANGED <<taken, got>>

Take ==
  /\ phase = "reading"
  /\ LET h == range.start + Len(taken)
     IN  /\ h <= range.end
         /\ \E item \in Findings(h) : taken' = Append(taken, item)
  /\ UNCHANGED <<range, got, phase>>

Give ==
  /\ phase = "reading"
  /\ Len(got) < Len(taken)
  /\ LET item == taken[Len(got) + 1]
     IN  /\ got' = Append(got, item)
         /\ IF item.status = "ok"
            THEN UNCHANGED <<taken, phase>>
            ELSE taken' = got' /\ phase' = "failed"
  /\ UNCHANGED range

Complete ==
  /\ phase = "reading"
  /\ Len(got) = range.end - range.start + 1
  /\ phase' = "complete"
  /\ UNCHANGED <<range, taken, got>>

(* The caller goes away, or the process does. *)
Leave ==
  /\ phase = "reading"
  /\ phase' = "gone"
  /\ taken' = << >> /\ got' = << >>
  /\ UNCHANGED range

Close == ~Idle /\ Idle'

Next == Open \/ Take \/ Give \/ Complete \/ Leave \/ Close

Spec == Init /\ [][Next]_feedVars
=============================================================================
