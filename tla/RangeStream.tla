----------------------------- MODULE RangeStream -----------------------------
(***************************************************************************)
(* get_block_range of src/serve.rs beside the ingest task: a spawned task  *)
(* reads the rows of the range one at a time, under the store's mutex for  *)
(* each row only, and sends them through a bounded channel to the gRPC     *)
(* response the client reads.  The ingest task may prune and store rows    *)
(* between any two reads.                                                  *)
(***************************************************************************)
EXTENDS Ingest

CONSTANTS
  Ranges,          (* the requests: records [start, end] of heights          *)
  ChannelSize      (* the capacity of the channel (32 in the code)           *)

(* What the task sends: a block, or a Status that names the height. *)
ItemType ==
  [height : Nat, status : {"ok"}, row : Row] \cup
  [height : Nat, status : {"not_found", "internal"}, row : {None}]

ASSUME RangeAssumption ==
  /\ \A r \in Ranges : r.start \in Nat /\ r.end \in Nat
  /\ None \notin Ranges /\ None \notin ItemType
  /\ ChannelSize \in Nat \ {0}

VARIABLES
  stream,          (* the stream being served                                *)
  pruned           (* history: a row went away since the request             *)

streamVars == <<vars, stream, pruned>>

(* next: the height the task reads next; hand: what it is about to send;   *)
(* got: what the client has received; client: whether it still reads, and  *)
(* if not, how its response ended; had: the heights that were stored when  *)
(* the request came in (history).                                          *)
NoStream ==
  [range |-> None, next |-> 0, hand |-> None, chan |-> << >>, got |-> << >>,
   client |-> "none", had |-> {}]

Reading == stream.client = "reading"

(* The task is in its loop over start ..= end. *)
Producing == stream.range # None /\ stream.next <= stream.range.end

Item(h, status, row) == [height |-> h, status |-> status, row |-> row]

StreamInit == Init /\ stream = NoStream /\ pruned = FALSE

(* The server is up from the end of bootstrap.  A range that ends before   *)
(* it starts is refused before there is a task or a channel, which leaves  *)
(* no stream behind: it has no step here.                                  *)
OpenStream(r) ==
  /\ pc \notin {"down", "boot"}
  /\ stream = NoStream
  /\ r.start <= r.end
  /\ stream' = [NoStream EXCEPT !.range = r, !.next = r.start, !.client = "reading",
                                !.had = DOMAIN rows]
  /\ pruned' = FALSE
  /\ UNCHANGED vars

(* Mutant of ReadRow: heights above the indexed_tip label are refused. *)
ReadRowBelowLabel ==
  /\ Producing
  /\ stream.hand = None
  /\ LET label == meta["indexed_tip"]
     IN  stream' = [stream EXCEPT !.hand =
                      IF HasRow(stream.next) /\ label # None /\ stream.next <= label
                      THEN Item(stream.next, "ok", rows[stream.next])
                      ELSE Item(stream.next, "not_found", None)]
  /\ UNCHANGED <<vars, pruned>>

(* Mutant of ReadRow: the first missing row ends the loop without a word. *)
ReadRowOrStop ==
  /\ Producing
  /\ stream.hand = None
  /\ stream' = IF HasRow(stream.next)
               THEN [stream EXCEPT !.hand =
                       Item(stream.next, "ok", rows[stream.next])]
               ELSE [stream EXCEPT !.next = stream.range.end + 1]
  /\ UNCHANGED <<vars, pruned>>

(* One get_compact_block. *)
ReadRow ==
  /\ Producing
  /\ stream.hand = None
  /\ stream' = [stream EXCEPT !.hand =
                  IF HasRow(stream.next)
                  THEN Item(stream.next, "ok", rows[stream.next])
                  ELSE Item(stream.next, "not_found", None)]
  /\ UNCHANGED <<vars, pruned>>

ReadFails ==
  /\ Producing
  /\ stream.hand = None
  /\ stream' = [stream EXCEPT !.hand = Item(stream.next, "internal", None)]
  /\ UNCHANGED <<vars, pruned>>

(* Mutant of SendItem: an item that finds no room is dropped. *)
SendOrDrop ==
  /\ Producing
  /\ stream.hand # None
  /\ Reading
  /\ stream' = [stream EXCEPT !.hand = None, !.next = @ + 1,
                   !.chan = IF Len(@) < ChannelSize THEN Append(@, stream.hand) ELSE @]
  /\ UNCHANGED <<vars, pruned>>

(* Mutant of SendItem: the send does not wait for room. *)
SendAtOnce ==
  /\ Producing
  /\ stream.hand # None
  /\ Reading
  /\ stream' = [stream EXCEPT !.chan = Append(@, stream.hand), !.hand = None,
                              !.next = @ + 1]
  /\ UNCHANGED <<vars, pruned>>

(* The send waits for room in the channel.  The loop goes on after an      *)
(* error item as after any other.                                          *)
SendItem ==
  /\ Producing
  /\ stream.hand # None
  /\ Reading
  /\ Len(stream.chan) < ChannelSize
  /\ stream' = [stream EXCEPT !.chan = Append(@, stream.hand), !.hand = None,
                              !.next = @ + 1]
  /\ UNCHANGED <<vars, pruned>>

(* Mutant of SendFails: a failed send is tried again. *)
SendRetried ==
  /\ Producing
  /\ stream.hand # None
  /\ ~Reading
  /\ UNCHANGED <<vars, pruned, stream>>

(* The receiver is gone: the send fails and the loop breaks. *)
SendFails ==
  /\ Producing
  /\ stream.hand # None
  /\ ~Reading
  /\ stream' = [stream EXCEPT !.hand = None, !.next = stream.range.end + 1]
  /\ UNCHANGED <<vars, pruned>>

(* tonic passes an item on; a Status ends the response, and with it the    *)
(* receiver.                                                               *)
Deliver ==
  /\ Reading
  /\ stream.chan # << >>
  /\ LET item == Head(stream.chan)
     IN  stream' = [stream EXCEPT !.got = Append(@, item),
                      !.chan = IF item.status = "ok" THEN Tail(@) ELSE << >>,
                      !.client = IF item.status = "ok" THEN @ ELSE "failed"]
  /\ UNCHANGED <<vars, pruned>>

(* The task is through and the channel drained: the stream is complete. *)
EndStream ==
  /\ Reading
  /\ stream.chan = << >>
  /\ ~Producing
  /\ stream' = [stream EXCEPT !.client = "complete"]
  /\ UNCHANGED <<vars, pruned>>

(* The client goes away, with all it has received. *)
CancelStream ==
  /\ Reading
  /\ stream' = [stream EXCEPT !.client = "gone", !.chan = << >>, !.got = << >>]
  /\ UNCHANGED <<vars, pruned>>

(* Both ends are gone; the next request may come. *)
ForgetStream ==
  /\ stream # NoStream
  /\ ~Reading
  /\ ~Producing
  /\ stream' = NoStream
  /\ UNCHANGED <<vars, pruned>>

(* The ingest task and the node go on meanwhile; the stream dies with the  *)
(* process.                                                                *)
IngestMeanwhile ==
  /\ Next
  /\ stream' = IF pc' = "down" THEN NoStream ELSE stream
  /\ pruned' = (pruned \/ ~(DOMAIN rows \subseteq DOMAIN rows'))

StreamTask == ReadRow \/ ReadFails \/ SendItem \/ SendFails

StreamNext ==
  \/ IngestMeanwhile
  \/ \E r \in Ranges : OpenStream(r)
  \/ StreamTask \/ Deliver \/ EndStream \/ CancelStream \/ ForgetStream

StreamSpec == StreamInit /\ [][StreamNext]_streamVars

(* tokio runs the task whenever it is not waiting for room; the client     *)
(* reads what is there or goes away.                                       *)
StreamFairSpec ==
  /\ StreamSpec
  /\ WF_streamVars(StreamTask)
  /\ WF_streamVars(Deliver \/ EndStream \/ CancelStream)
-----------------------------------------------------------------------------
(* Properties. *)

StreamTypeOK ==
  /\ TypeOK
  /\ stream.range \in Ranges \cup {None}
  /\ stream.next \in Nat
  /\ stream.hand \in ItemType \cup {None}
  /\ stream.chan \in Seq(ItemType) /\ Len(stream.chan) <= ChannelSize
  /\ stream.got \in Seq(ItemType)
  /\ stream.client \in {"none", "reading", "complete", "failed", "gone"}
  /\ stream.had \subseteq Heights
  /\ pruned \in BOOLEAN

(* Everything the task has read for a client that still reads, in order. *)
Items ==
  stream.got \o stream.chan \o
    IF stream.hand = None THEN << >> ELSE << stream.hand >>

(* As long as no row goes away, a stream is a snapshot although each row   *)
(* is read under a lock of its own: its blocks are the stored ones, as     *)
(* they are stored now, at consecutive heights from the start.             *)
StreamIsSnapshot ==
  Reading /\ ~pruned =>
    \A i \in DOMAIN Items :
      /\ Items[i].height = stream.range.start + i - 1
      /\ Items[i].status = "ok" =>
           HasRow(Items[i].height) /\ Items[i].row = rows[Items[i].height]

(* As long as no row goes away, a height that was stored when the request  *)
(* came in is never reported as not indexed.                               *)
StoredHeightsServed ==
  ~pruned =>
    \A i \in DOMAIN Items :
      Items[i].status = "not_found" => Items[i].height \notin stream.had

(* The stream keeps the promise of BlockFeed, whatever is pruned or stored  *)
(* meanwhile: what a client is given was looked up height by height, and   *)
(* only a response with a block for every height ends without an error.    *)
(* What the task still finds for a client that has its error is nobody's.  *)
Feed ==
  INSTANCE BlockFeed WITH range <- stream.range, got <- stream.got,
                          taken <- IF Reading THEN Items ELSE stream.got,
                          phase <- stream.client

RefinesBlockFeed == Feed!Spec

(* The spawned task always ends: it neither waits for room for ever nor    *)
(* outlives a client that went away.                                       *)
StreamTaskEnds == Producing ~> ~Producing
=============================================================================
