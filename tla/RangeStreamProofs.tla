-------------------------- MODULE RangeStreamProofs --------------------------
(***************************************************************************)
(* Proofs about RangeStream, for every forest of blocks, every set of      *)
(* ranges, every channel size and every interleaving of the stream with    *)
(* the ingest task and the node.                                           *)
(***************************************************************************)
EXTENDS RangeStream, IngestProofs, SequenceFacts

Clients == {"none", "reading", "complete", "failed", "gone"}

StreamShape ==
  stream \in [range : Ranges \cup {None}, next : Nat, hand : ItemType \cup {None},
              chan : Seq(ItemType), got : Seq(ItemType), client : Clients,
              had : SUBSET Heights]

(* What a stream is at all.  The channel lives as long as the client reads.*)
StreamOK ==
  /\ stream.client = "none" => stream = NoStream
  /\ stream # NoStream =>
       stream.range \in Ranges /\ stream.range.start <= stream.range.end
  /\ stream.hand # None => Producing
  /\ ~Reading => stream.chan = << >>
  /\ Len(stream.chan) <= ChannelSize
  /\ pruned \in BOOLEAN

(* The heights that were read are those from the start to below next, each *)
(* once and in order; what the client has by now are blocks.               *)
InOrder ==
  Reading =>
    /\ stream.next = stream.range.start + Len(stream.got) + Len(stream.chan)
    /\ stream.next <= stream.range.end + 1
    /\ \A i \in DOMAIN Items : Items[i].height = stream.range.start + i - 1
    /\ \A i \in DOMAIN stream.got : stream.got[i].status = "ok"

(* All that was read, whether the client still wants it or not. *)
ReadItems ==
  (Range(stream.got) \cup Range(stream.chan) \cup {stream.hand}) \ {None}

(* A block that was read for a client that still reads is still the stored *)
(* one.                                                                    *)
Sound(item) ==
  item.status = "ok" => HasRow(item.height) /\ item.row = rows[item.height]

AllSound == Reading /\ ~pruned => \A item \in ReadItems : Sound(item)

(* What is reported missing was not stored when the request came in. *)
Missing(item) == item.status = "not_found" => item.height \notin stream.had

AllMissing ==
  ~pruned =>
    /\ stream.had \subseteq DOMAIN rows
    /\ \A item \in ReadItems : Missing(item)

SInv == StreamShape /\ StreamOK /\ InOrder /\ AllSound /\ AllMissing
-----------------------------------------------------------------------------
(* What is received, under way or in hand is all of Items, in that order. *)
LEMMA ItemsFacts ==
  ASSUME StreamShape
  PROVE  /\ stream.got \in Seq(ItemType)
         /\ stream.chan \in Seq(ItemType)
         /\ stream.got \o stream.chan \in Seq(ItemType)
         /\ stream.hand = None => Items = stream.got \o stream.chan
         /\ stream.hand # None =>
              /\ stream.hand \in ItemType
              /\ Items = Append(stream.got \o stream.chan, stream.hand)
<1> DEFINE got  == stream.got
           chan == stream.chan
           hand == stream.hand
<1>1. /\ got \in Seq(ItemType)
      /\ chan \in Seq(ItemType)
      /\ hand \in ItemType \cup {None}
  BY DEF StreamShape
<1>2. Items = got \o chan \o IF hand = None THEN << >> ELSE << hand >>
  BY DEF Items
<1> HIDE DEF got, chan, hand
<1>3. got \o chan \in Seq(ItemType)
  BY <1>1, ConcatProperties
<1>4. CASE hand = None
  <2>1. Items = (got \o chan) \o << >>
    BY <1>2, <1>4
  <2>2. Items = got \o chan
    BY <2>1, <1>1, <1>3, ConcatEmptySeq
  <2> QED
    BY <2>2, <1>1, <1>3, <1>4 DEF got, chan, hand
<1>5. CASE hand # None
  <2>1. hand \in ItemType /\ << hand >> \in Seq(ItemType)
    BY <1>1, <1>5
  <2>2. Items = (got \o chan) \o << hand >>
    BY <1>2, <1>5
  <2>3. Items = Append(got \o chan, hand)
    BY <2>1, <2>2, <1>3, AppendIsConcat
  <2> QED
    BY <2>1, <2>3, <1>1, <1>3, <1>5 DEF got, chan, hand
<1> QED
  BY <1>4, <1>5

LEMMA ItemsInReadItems ==
  ASSUME StreamShape, NEW i \in DOMAIN Items
  PROVE  Items[i] \in ReadItems /\ i \in Nat
<1> DEFINE got  == stream.got
           chan == stream.chan
           hand == stream.hand
           front == got \o chan
<1>1. /\ got \in Seq(ItemType) /\ chan \in Seq(ItemType)
      /\ front \in Seq(ItemType)
      /\ hand = None => Items = front
      /\ hand # None => hand \in ItemType /\ Items = Append(front, hand)
  BY ItemsFacts
<1>2. ReadItems = (Range(got) \cup Range(chan) \cup {hand}) \ {None}
  BY DEF ReadItems
<1> HIDE DEF got, chan, hand
<1>3. ASSUME NEW j \in DOMAIN front
      PROVE  front[j] \in Range(got) \cup Range(chan) /\ j \in Nat
  <2>1. DOMAIN got = 1 .. Len(got) /\ DOMAIN chan = 1 .. Len(chan)
    BY <1>1, LenProperties
  <2>2. CASE j \in 1 .. Len(got) /\ front[j] = got[j]
    BY <2>1, <2>2 DEF Range
  <2>3. CASE \E k \in 1 .. Len(chan) : j = Len(got) + k /\ front[j] = chan[k]
    BY <2>1, <2>3, <1>1, ConcatFacts DEF Range
  <2> QED
    BY <1>1, <2>2, <2>3, ConcatFacts
<1>4. Range(got) \cup Range(chan) \subseteq ItemType
  BY <1>1, RangeFacts
<1> HIDE DEF front
<1>5. CASE hand = None
  BY <1>1, <1>2, <1>3, <1>4, <1>5, RangeAssumption
<1>6. CASE hand # None
  <2> DEFINE n == Len(front)
  <2>1. n \in Nat /\ DOMAIN front = 1 .. n
    BY <1>1, LenProperties
  <2>2. /\ DOMAIN Items = 1 .. n + 1
        /\ (\A j \in 1 .. n : Items[j] = front[j]) /\ Items[n + 1] = hand
    BY <1>1, <1>6, AppendFacts, LenProperties
  <2> HIDE DEF n
  <2>3. i \in 1 .. n \/ i = n + 1
    BY <2>1, <2>2
  <2>4. CASE i \in 1 .. n
    BY <2>1, <2>2, <2>4, <1>2, <1>3, <1>4, RangeAssumption
  <2>5. CASE i = n + 1
    BY <2>1, <2>2, <2>5, <1>2, <1>6
  <2> QED
    BY <2>3, <2>4, <2>5
<1> QED
  BY <1>5, <1>6
-----------------------------------------------------------------------------
(* What each step does to the stream. *)

NewFinding(item) ==
  /\ item \in ItemType
  /\ item.height = stream.next
  /\ Sound(item)
  /\ item.status = "not_found" => ~HasRow(item.height)
  /\ item.status = "ok" => HasRow(item.height)

(* ReadRow and ReadFails take an item in hand. *)
LEMMA ReadEffect ==
  ASSUME TypeOK, SInv, ReadRow \/ ReadFails
  PROVE  /\ StreamShape' /\ StreamOK'
         /\ Reading' = Reading
         /\ UNCHANGED <<vars, pruned>>
         /\ \E item \in ItemType :
              /\ NewFinding(item)
              /\ stream' = [stream EXCEPT !.hand = item]
              /\ Items' = Append(Items, item)
              /\ ReadItems' \subseteq ReadItems \cup {item}
<1>1. PICK item \in ItemType :
        NewFinding(item) /\ stream' = [stream EXCEPT !.hand = item]
  <2>1. stream.next \in Nat
    BY DEF SInv, StreamShape
  <2>2. CASE ReadRow /\ HasRow(stream.next)
    <3> DEFINE item == Item(stream.next, "ok", rows[stream.next])
    <3>1. item \in ItemType
      BY <2>1, <2>2 DEF Item, ItemType, TypeOK, HasRow
    <3>2. NewFinding(item)
      BY <3>1, <2>2 DEF NewFinding, Sound, Item
    <3>3. stream' = [stream EXCEPT !.hand = item]
      BY <2>2 DEF ReadRow
    <3> QED
      BY <3>1, <3>2, <3>3
  <2>3. CASE ReadRow /\ ~HasRow(stream.next)
    <3> DEFINE item == Item(stream.next, "not_found", None)
    <3>1. item \in ItemType
      BY <2>1 DEF Item, ItemType
    <3>2. NewFinding(item)
      BY <3>1, <2>3 DEF NewFinding, Sound, Item
    <3>3. stream' = [stream EXCEPT !.hand = item]
      BY <2>3 DEF ReadRow
    <3> QED
      BY <3>1, <3>2, <3>3
  <2>4. CASE ReadFails
    <3> DEFINE item == Item(stream.next, "internal", None)
    <3>1. item \in ItemType
      BY <2>1 DEF Item, ItemType
    <3>2. NewFinding(item)
      BY <3>1 DEF NewFinding, Sound, Item
    <3>3. stream' = [stream EXCEPT !.hand = item]
      BY <2>4 DEF ReadFails
    <3> QED
      BY <3>1, <3>2, <3>3
  <2> QED
    BY <2>2, <2>3, <2>4
<1>2. Producing /\ stream.hand = None /\ UNCHANGED <<vars, pruned>>
  BY DEF ReadRow, ReadFails
<1>3. /\ stream'.range = stream.range /\ stream'.next = stream.next
      /\ stream'.got = stream.got /\ stream'.chan = stream.chan
      /\ stream'.client = stream.client /\ stream'.had = stream.had
      /\ stream'.hand = item
  BY <1>1 DEF SInv, StreamShape
<1>4. StreamShape'
  BY <1>1 DEF SInv, StreamShape
<1>5. stream.client # "none"
  BY <1>2 DEF SInv, StreamOK, NoStream, Producing
<1>6. StreamOK'
  BY <1>2, <1>3, <1>5 DEF SInv, StreamOK, Producing, Reading, NoStream
<1>7. Items' = Append(Items, item)
  <2> DEFINE front == stream.got \o stream.chan
  <2>1. Items = front /\ front \in Seq(ItemType)
    BY <1>2, ItemsFacts DEF SInv
  <2>2. Items' = front \o << item >>
    BY <1>3, RangeAssumption DEF Items
  <2> HIDE DEF front
  <2> QED
    BY <2>1, <2>2, AppendIsConcat
<1>8. ReadItems' \subseteq ReadItems \cup {item}
  BY <1>3 DEF ReadItems
<1> QED
  BY <1>1, <1>2, <1>3, <1>4, <1>6, <1>7, <1>8 DEF Reading

(* SendItem moves the item in hand to the channel. *)
LEMMA SendEffect ==
  ASSUME SInv, SendItem
  PROVE  /\ StreamShape' /\ StreamOK'
         /\ UNCHANGED <<vars, pruned>>
         /\ Items' = Items
         /\ ReadItems' \subseteq ReadItems
         /\ Reading /\ Reading'
         /\ stream'.range = stream.range /\ stream'.had = stream.had
         /\ stream'.got = stream.got
         /\ stream.next <= stream.range.end /\ stream'.next = stream.next + 1
         /\ Len(stream'.chan) = Len(stream.chan) + 1
<1> DEFINE got == stream.got
           chan == stream.chan
           hand == stream.hand
           room == Len(stream.chan)
<1>1. /\ got \in Seq(ItemType) /\ chan \in Seq(ItemType)
      /\ hand \in ItemType /\ Items = Append(got \o chan, hand)
      /\ hand # None
  BY ItemsFacts DEF SendItem, SInv
<1>2. /\ stream'.range = stream.range /\ stream'.next = stream.next + 1
      /\ stream'.got = got /\ stream'.chan = Append(chan, hand)
      /\ stream'.client = stream.client /\ stream'.had = stream.had
      /\ stream'.hand = None
  BY DEF SendItem, SInv, StreamShape
<1>3. UNCHANGED <<vars, pruned>> /\ Producing /\ Reading /\ Len(chan) < ChannelSize
  BY DEF SendItem
<1>4. StreamShape'
  <2>1. Append(chan, hand) \in Seq(ItemType)
    BY <1>1, AppendFacts
  <2>2. stream.next + 1 \in Nat
    BY DEF SInv, StreamShape
  <2> QED
    BY <2>1, <2>2 DEF SendItem, SInv, StreamShape
<1>5. Len(Append(chan, hand)) = Len(chan) + 1 /\ room \in Nat
  BY <1>1, AppendFacts, LenProperties
<1>6. Len(stream'.chan) <= ChannelSize
  <2> HIDE DEF got, chan, hand
  <2>1. room = Len(chan) /\ Len(stream'.chan) = room + 1
    BY <1>2, <1>5 DEF chan
  <2> HIDE DEF room
  <2> QED
    BY <2>1, <1>3, <1>5, RangeAssumption
<1>7. StreamOK'
  BY <1>2, <1>3, <1>6 DEF SInv, StreamOK, Reading, NoStream
<1>8. Items' = Items
  <2> DEFINE front == got \o Append(chan, hand)
  <2>1. Items' = front \o << >>
    BY <1>2 DEF Items
  <2>2. front \in Seq(ItemType) /\ front = Append(got \o chan, hand)
    <3>1. got \o chan \in Seq(ItemType)
      BY <1>1, ConcatProperties
    <3>2. Append(got \o chan, hand) \in Seq(ItemType)
      BY <1>1, <3>1, AppendFacts
    <3> HIDE DEF got, chan, hand
    <3>3. front = Append(got \o chan, hand)
      BY <1>1, ConcatAppend
    <3> QED
      BY <3>2, <3>3
  <2> HIDE DEF got, chan, hand, front
  <2> QED
    BY <1>1, <2>1, <2>2, ConcatEmptySeq
<1>9. ReadItems' \subseteq ReadItems
  <2>1. Range(Append(chan, hand)) = Range(chan) \cup {hand}
    BY <1>1, RangeFacts
  <2>2. /\ ReadItems = (Range(got) \cup Range(chan) \cup {hand}) \ {None}
        /\ ReadItems' = (Range(got) \cup Range(Append(chan, hand)) \cup {None}) \ {None}
    BY <1>2 DEF ReadItems
  <2> HIDE DEF got, chan, hand
  <2> QED
    BY <2>1, <2>2
<1> QED
  BY <1>2, <1>3, <1>4, <1>5, <1>7, <1>8, <1>9 DEF Reading, Producing

(* Deliver hands the head of the channel to the client. *)
LEMMA DeliverEffect ==
  ASSUME SInv, Deliver
  PROVE  /\ StreamShape' /\ StreamOK'
         /\ UNCHANGED <<vars, pruned>>
         /\ ReadItems' \subseteq ReadItems
         /\ Reading
         /\ stream'.range = stream.range /\ stream'.had = stream.had
         /\ stream'.next = stream.next
         /\ Len(stream.got) \in Nat /\ Len(stream.chan) \in Nat
         /\ \E item \in ItemType :
              /\ Len(stream.got) < Len(Items)
              /\ Items[Len(stream.got) + 1] = item
              /\ stream'.got = Append(stream.got, item)
              /\ item.status = "ok" =>
                   /\ Reading' /\ Items' = Items
                   /\ Len(stream'.chan) = Len(stream.chan) - 1
              /\ item.status # "ok" => stream'.client = "failed"
<1> DEFINE got == stream.got
           chan == stream.chan
           hand == stream.hand
           item == Head(chan)
           m == Len(got)
           n == Len(chan)
<1>1. /\ got \in Seq(ItemType) /\ chan \in Seq(ItemType) /\ chan # << >>
      /\ hand = None => Items = got \o chan
      /\ hand # None => hand \in ItemType /\ Items = Append(got \o chan, hand)
  BY ItemsFacts DEF Deliver, SInv
<1>2. /\ item \in ItemType /\ item = chan[1] /\ Tail(chan) \in Seq(ItemType)
      /\ m \in Nat /\ n \in Nat \ {0} /\ Len(Tail(chan)) = n - 1
  BY <1>1, TailFacts, LenProperties
<1>3. Append(got, item) \in Seq(ItemType)
  BY <1>1, <1>2, AppendFacts
<1>4. /\ stream'.range = stream.range /\ stream'.next = stream.next
      /\ stream'.hand = hand /\ stream'.had = stream.had
      /\ stream'.got = Append(got, item)
      /\ item.status = "ok" =>
           stream'.chan = Tail(chan) /\ stream'.client = stream.client
      /\ item.status # "ok" => stream'.chan = << >> /\ stream'.client = "failed"
  BY DEF Deliver, SInv, StreamShape
<1>5. UNCHANGED <<vars, pruned>> /\ Reading
  BY DEF Deliver
<1>6. StreamShape'
  <2>1. CASE item.status = "ok"
    <3>1. stream' = [stream EXCEPT !.got = Append(got, item), !.chan = Tail(chan)]
      BY <2>1 DEF Deliver, SInv, StreamShape
    <3> QED
      BY <3>1, <1>2, <1>3 DEF SInv, StreamShape
  <2>2. CASE item.status # "ok"
    <3>1. stream' = [stream EXCEPT !.got = Append(got, item), !.chan = << >>,
                                   !.client = "failed"]
      BY <2>2 DEF Deliver
    <3>2. << >> \in Seq(ItemType) /\ "failed" \in Clients
      BY DEF Clients
    <3> HIDE DEF got, chan, hand, item, m, n
    <3> QED
      BY <3>1, <3>2, <1>3 DEF SInv, StreamShape
  <2> QED
    BY <2>1, <2>2
<1>7. Len(stream'.chan) <= ChannelSize
  <2>1. CASE item.status = "ok"
    <3>1. Len(stream'.chan) = n - 1 /\ n <= ChannelSize
      BY <2>1, <1>2, <1>4 DEF SInv, StreamOK
    <3> HIDE DEF got, chan, hand, item, m, n
    <3> QED
      BY <3>1, <1>2, RangeAssumption
  <2>2. CASE item.status # "ok"
    BY <2>2, <1>4, RangeAssumption
  <2> QED
    BY <2>1, <2>2
<1>8. StreamOK'
  BY <1>4, <1>5, <1>7 DEF SInv, StreamOK, Reading, Producing, NoStream
<1>9. ReadItems' \subseteq ReadItems
  <2>1. /\ Range(Append(got, item)) = Range(got) \cup {item}
        /\ item \in Range(chan) /\ Range(Tail(chan)) \subseteq Range(chan)
        /\ Range(<< >>) = {}
    BY <1>1, <1>2, RangeFacts
  <2>2. /\ ReadItems = (Range(got) \cup Range(chan) \cup {hand}) \ {None}
        /\ ReadItems' = (Range(Append(got, item)) \cup Range(stream'.chan) \cup {hand}) \ {None}
    BY <1>4 DEF ReadItems
  <2>3. Range(stream'.chan) \subseteq Range(chan)
    BY <1>4, <2>1
  <2> HIDE DEF got, chan, hand, item
  <2> QED
    BY <2>1, <2>2, <2>3
<1>10. item.status = "ok" => Items' = Items
  <2> SUFFICES ASSUME item.status = "ok" PROVE Items' = Items
    OBVIOUS
  <2> DEFINE end == IF hand = None THEN << >> ELSE << hand >>
  <2>1. Items' = (Append(got, item) \o Tail(chan)) \o end
    BY <1>4 DEF Items
  <2>2. Items = (got \o chan) \o end
    BY DEF Items
  <2>3. Append(got, item) \o Tail(chan) = got \o chan
    BY <1>1, AppendHead
  <2> QED
    BY <2>1, <2>2, <2>3
<1>11. m < Len(Items) /\ Items[m + 1] = item
  <2> DEFINE front == got \o chan
             k == Len(front)
  <2>1. /\ front \in Seq(ItemType) /\ Len(front) = Len(got) + Len(chan)
        /\ \A i \in 1 .. Len(got) + Len(chan) :
             front[i] = IF i <= Len(got) THEN got[i] ELSE chan[i - Len(got)]
    BY <1>1, ConcatProperties
  <2>2. k = m + n
    BY <2>1
  <2>3. \A i \in 1 .. m + n : front[i] = IF i <= m THEN got[i] ELSE chan[i - m]
    BY <2>1
  <2> HIDE DEF got, chan, hand, item, m, n, front, k
  <2>4. m + 1 \in 1 .. k /\ m < k /\ front[m + 1] = item
    BY <1>2, <2>2, <2>3
  <2>5. CASE hand = None
    BY <2>4, <2>5, <1>1 DEF front, k
  <2>6. CASE hand # None
    <3>1. hand \in ItemType /\ Items = Append(front, hand)
      BY <2>6, <1>1 DEF front
    <3>2. Len(Items) = k + 1 /\ \A i \in 1 .. k : Items[i] = front[i]
      BY <2>1, <3>1, AppendFacts DEF front, k
    <3> QED
      BY <2>2, <2>4, <3>2, <1>2
  <2> QED
    BY <2>5, <2>6
<1> QED
  BY <1>2, <1>4, <1>5, <1>6, <1>8, <1>9, <1>10, <1>11 DEF Reading

(* There is nothing to read of a stream that is not there. *)
LEMMA NothingRead ==
  /\ stream.got = << >> /\ stream.chan = << >> /\ stream.hand = None =>
       Items = << >> /\ ReadItems = {}
  /\ stream = NoStream => Items = << >> /\ ReadItems = {} /\ ~Reading /\ ~Producing
<1>1. ASSUME stream.got = << >>, stream.chan = << >>, stream.hand = None
      PROVE  Items = << >> /\ ReadItems = {}
  <2>1. << >> \in Seq(ItemType) /\ Range(<< >>) = {}
    BY DEF Range
  <2>2. Items = (<< >> \o << >>) \o << >>
    BY <1>1 DEF Items
  <2>3. Items = << >>
    BY <2>1, <2>2, ConcatEmptySeq
  <2> QED
    BY <1>1, <2>1, <2>3 DEF ReadItems
<1> QED
  BY <1>1 DEF NoStream, Reading, Producing

(* The steps of the server that read and send nothing. *)
LEMMA OpenEffect ==
  ASSUME TypeOK, NEW r \in Ranges, OpenStream(r)
  PROVE  /\ SInv' /\ Items' = << >> /\ Reading'
         /\ stream = NoStream /\ UNCHANGED vars
         /\ stream'.range = r /\ stream'.got = << >>
<1>1. stream' = [range |-> r, next |-> r.start, hand |-> None, chan |-> << >>,
                 got |-> << >>, client |-> "reading", had |-> DOMAIN rows]
  BY DEF OpenStream, NoStream
<1>2. /\ r.start \in Nat /\ r.end \in Nat /\ r.start <= r.end
      /\ << >> \in Seq(ItemType) /\ Len(<< >>) = 0
      /\ stream = NoStream /\ pruned' = FALSE /\ UNCHANGED vars
  BY RangeAssumption DEF OpenStream
<1>3. StreamShape'
  BY <1>1, <1>2 DEF StreamShape, Clients, TypeOK
<1>4. StreamOK'
  <2>1. /\ stream'.client # "none" /\ stream'.range = r /\ Reading'
        /\ stream'.hand = None /\ stream'.chan = << >>
    BY <1>1 DEF Reading
  <2>2. Len(stream'.chan) <= ChannelSize
    BY <2>1, <1>2, RangeAssumption
  <2> QED
    BY <2>1, <2>2, <1>2 DEF StreamOK
<1>5. Items' = << >> /\ ReadItems' = {}
  <2>1. stream'.got = << >> /\ stream'.chan = << >> /\ stream'.hand = None
    BY <1>1
  <2>2. Items' = (<< >> \o << >>) \o << >> /\ Range(<< >>) = {}
    BY <2>1 DEF Items, Range
  <2>3. Items' = << >>
    BY <2>2, <1>2, ConcatEmptySeq
  <2> QED
    BY <2>1, <2>2, <2>3 DEF ReadItems
<1>6. InOrder'
  BY <1>1, <1>2, <1>5 DEF InOrder, Reading
<1>7. AllSound' /\ AllMissing'
  BY <1>1, <1>2, <1>5 DEF AllSound, AllMissing, vars
<1> QED
  BY <1>1, <1>2, <1>3, <1>4, <1>5, <1>6, <1>7 DEF SInv, Reading

LEMMA NoStreamInv ==
  ASSUME stream' = NoStream
  PROVE  /\ Items' = << >> /\ ~Reading'
         /\ pruned' \in BOOLEAN => SInv'
<1>1. StreamShape'
  BY DEF NoStream, StreamShape, Clients
<1>2. pruned' \in BOOLEAN => StreamOK'
  BY RangeAssumption DEF NoStream, StreamOK, Reading
<1>3. Items' = << >> /\ ReadItems' = {}
  <2>1. /\ << >> \in Seq(ItemType)
        /\ Items' = (<< >> \o << >>) \o << >> /\ Range(<< >>) = {}
    BY DEF NoStream, Items, Range
  <2>2. Items' = << >>
    BY <2>1, ConcatEmptySeq
  <2> QED
    BY <2>1, <2>2 DEF NoStream, ReadItems
<1>4. InOrder' /\ AllSound' /\ AllMissing' /\ ~Reading'
  BY <1>3 DEF NoStream, InOrder, AllSound, AllMissing, Reading
<1> QED
  BY <1>1, <1>2, <1>3, <1>4 DEF SInv

(* The end of the response and of the task. *)
LEMMA QuietEffect ==
  ASSUME SInv, SendFails \/ EndStream \/ CancelStream
  PROVE  /\ SInv' /\ ~Reading' /\ UNCHANGED vars
<1>1. /\ stream'.range = stream.range /\ stream'.had = stream.had
      /\ stream'.chan \in {stream.chan, << >>} /\ stream'.got \in {stream.got, << >>}
      /\ stream'.hand \in {stream.hand, None}
      /\ UNCHANGED <<vars, pruned>> /\ ~Reading'
  BY DEF SendFails, EndStream, CancelStream, SInv, StreamShape, Reading
<1>2. StreamShape'
  <2>1. CASE SendFails
    <3>1. stream.range \in Ranges
      BY <2>1 DEF SInv, StreamOK, SendFails, Producing, NoStream
    <3>2. stream.range.end + 1 \in Nat
      BY <3>1, RangeAssumption
    <3> QED
      BY <2>1, <3>2 DEF SendFails, SInv, StreamShape
  <2>2. CASE EndStream
    BY <2>2 DEF EndStream, SInv, StreamShape, Clients
  <2>3. CASE CancelStream
    <3>1. << >> \in Seq(ItemType)
      OBVIOUS
    <3> QED
      BY <2>3, <3>1 DEF CancelStream, SInv, StreamShape, Clients
  <2> QED
    BY <2>1, <2>2, <2>3
<1>3. StreamOK'
  <2>1. CASE SendFails
    BY <2>1, RangeAssumption
    DEF SendFails, SInv, StreamShape, StreamOK, Reading, Producing, NoStream
  <2>2. CASE EndStream
    BY <2>2 DEF EndStream, SInv, StreamShape, StreamOK, Reading, Producing, NoStream
  <2>3. CASE CancelStream
    BY <2>3, RangeAssumption
    DEF CancelStream, SInv, StreamShape, StreamOK, Reading, Producing, NoStream
  <2> QED
    BY <2>1, <2>2, <2>3
<1>4. ReadItems' \subseteq ReadItems
  BY <1>1 DEF ReadItems, Range
<1>5. InOrder' /\ AllSound' /\ AllMissing'
  BY <1>1, <1>4 DEF SInv, InOrder, AllSound, AllMissing, Missing, vars
<1> QED
  BY <1>1, <1>2, <1>3, <1>5 DEF SInv

LEMMA StepSInv ==
  ASSUME IInv, SInv, [StreamNext]_streamVars
  PROVE  SInv'
<1>0. TypeOK /\ DOMAIN rows \subseteq Heights
  BY DEF IInv, TypeOK
<1>1. CASE IngestMeanwhile
  <2>1. CASE stream' = NoStream
    BY <1>1, <2>1, NoStreamInv DEF IngestMeanwhile, SInv, StreamOK
  <2>2. CASE stream' = stream
    <3>1. /\ Items' = Items /\ ReadItems' = ReadItems /\ Reading' = Reading
          /\ ~pruned' => ~pruned /\ DOMAIN rows \subseteq DOMAIN rows'
          /\ pruned' \in BOOLEAN
      BY <1>1, <2>2 DEF IngestMeanwhile, Items, ReadItems, Reading, SInv, StreamOK
    <3>2. StreamShape' /\ StreamOK' /\ InOrder'
      BY <2>2, <3>1 DEF SInv, StreamShape, StreamOK, InOrder, Reading, Producing
    <3>3. AllSound'
      BY <1>1, <2>2, <3>1, RowsKept
      DEF SInv, AllSound, Sound, HasRow, IngestMeanwhile
    <3>4. AllMissing'
      BY <2>2, <3>1 DEF SInv, AllMissing, Missing
    <3> QED
      BY <3>2, <3>3, <3>4 DEF SInv
  <2> QED
    BY <1>1, <2>1, <2>2 DEF IngestMeanwhile
<1>2. ASSUME NEW r \in Ranges, OpenStream(r) PROVE SInv'
  BY <1>0, <1>2, OpenEffect
<1>3. CASE ReadRow \/ ReadFails
  <2>1. PICK item \in ItemType :
          /\ NewFinding(item)
          /\ stream' = [stream EXCEPT !.hand = item]
          /\ Items' = Append(Items, item)
          /\ ReadItems' \subseteq ReadItems \cup {item}
    BY <1>0, <1>3, ReadEffect
  <2>2. StreamShape' /\ StreamOK' /\ Reading' = Reading /\ UNCHANGED <<vars, pruned>>
    BY <1>0, <1>3, ReadEffect
  <2>3. /\ stream'.range = stream.range /\ stream'.next = stream.next
        /\ stream'.chan = stream.chan /\ stream'.got = stream.got
        /\ stream'.had = stream.had
    BY <2>1 DEF SInv, StreamShape
  <2>4. UNCHANGED rows
    BY <2>2 DEF vars
  <2>5. InOrder'
    <3> SUFFICES ASSUME Reading PROVE InOrder'
      BY <2>2 DEF InOrder
    <3> DEFINE m == Len(stream.got)
               n == Len(stream.chan)
    <3>1. /\ m \in Nat /\ n \in Nat
          /\ stream.got \in Seq(ItemType) /\ stream.chan \in Seq(ItemType)
      BY LenProperties DEF SInv, StreamShape
    <3>2. Items = stream.got \o stream.chan
      BY <1>3, ItemsFacts DEF SInv, ReadRow, ReadFails
    <3>3. Items \in Seq(ItemType) /\ Len(Items) = m + n
      BY <3>1, <3>2, ConcatProperties
    <3>4. DOMAIN Items = 1 .. m + n
      BY <3>3, LenProperties
    <3>5. /\ DOMAIN Items' = 1 .. (m + n) + 1
          /\ \A i \in 1 .. m + n : Items'[i] = Items[i]
          /\ Items'[(m + n) + 1] = item
      <4>1. /\ Append(Items, item) \in Seq(ItemType)
            /\ Len(Append(Items, item)) = Len(Items) + 1
        BY <3>3, AppendFacts
      <4>2. Len(Items) + 1 = (m + n) + 1
        BY <3>3
      <4>3. DOMAIN Append(Items, item) = 1 .. (m + n) + 1
        BY <4>1, <4>2, LenProperties
      <4>4. /\ \A i \in 1 .. m + n : Append(Items, item)[i] = Items[i]
            /\ Append(Items, item)[(m + n) + 1] = item
        <5> HIDE DEF m, n
        <5>1. /\ \A i \in 1 .. Len(Items) : Append(Items, item)[i] = Items[i]
              /\ Append(Items, item)[Len(Items) + 1] = item
          BY <3>3, AppendFacts
        <5> QED
          BY <5>1, <3>3
      <4> QED
        BY <2>1, <4>3, <4>4
    <3>6. /\ stream.next = stream.range.start + m + n
          /\ stream.next <= stream.range.end + 1
          /\ \A i \in DOMAIN Items : Items[i].height = stream.range.start + i - 1
          /\ \A i \in DOMAIN stream.got : stream.got[i].status = "ok"
      BY DEF SInv, InOrder
    <3>7. stream.range.start \in Nat
      BY RangeAssumption DEF SInv, StreamOK, NoStream, Reading
    <3> DEFINE a == stream.range.start
    <3> HIDE DEF m, n
    <3>8. ASSUME NEW i \in DOMAIN Items' PROVE Items'[i].height = a + i - 1
      <4>1. i \in 1 .. m + n \/ i = (m + n) + 1
        BY <3>1, <3>5
      <4>2. CASE i \in 1 .. m + n
        BY <4>2, <3>4, <3>5, <3>6
      <4>3. CASE i = (m + n) + 1
        <5>1. Items'[i].height = stream.next
          BY <4>3, <2>1, <3>5 DEF NewFinding
        <5>2. a + (m + n + 1) - 1 = a + m + n
          BY <3>1, <3>7
        <5> QED
          BY <4>3, <5>1, <5>2, <3>6
      <4> QED
        BY <4>1, <4>2, <4>3
    <3> QED
      BY <2>3, <3>6, <3>8 DEF InOrder, m, n
  <2>6. AllSound'
    BY <2>1, <2>2, <2>4 DEF SInv, AllSound, Sound, NewFinding, HasRow
  <2>7. AllMissing'
    BY <2>1, <2>2, <2>3, <2>4 DEF SInv, AllMissing, Missing, NewFinding, HasRow
  <2> QED
    BY <2>2, <2>5, <2>6, <2>7 DEF SInv
<1>4. CASE SendItem
  <2>1. /\ StreamShape' /\ StreamOK' /\ UNCHANGED <<vars, pruned>>
        /\ Items' = Items /\ ReadItems' \subseteq ReadItems
        /\ Reading /\ Reading'
        /\ stream'.range = stream.range /\ stream'.had = stream.had
        /\ stream'.got = stream.got
        /\ stream.next <= stream.range.end /\ stream'.next = stream.next + 1
        /\ Len(stream'.chan) = Len(stream.chan) + 1
    BY <1>4, SendEffect
  <2>2. InOrder'
    <3> DEFINE m == Len(stream.got)
               n == Len(stream.chan)
               k == Len(stream'.chan)
               a == stream.range.start
               b == stream.range.end
    <3>1. m \in Nat /\ n \in Nat /\ k = n + 1
      BY <2>1, LenProperties DEF SInv, StreamShape
    <3>2. stream.next = a + m + n
      BY <2>1 DEF SInv, InOrder
    <3>3. a \in Nat /\ b \in Nat
      BY <2>1, RangeAssumption DEF SInv, StreamOK, NoStream, Reading
    <3> HIDE DEF m, n, k, a, b
    <3>4. stream'.next = a + m + k /\ stream'.next <= b + 1
      <4>1. stream'.next = (a + m + n) + 1 /\ a + m + n <= b
        BY <2>1, <3>2 DEF b
      <4> QED
        BY <4>1, <3>1, <3>3
    <3> QED
      BY <2>1, <3>4 DEF SInv, InOrder, m, k, a, b
  <2>3. AllSound' /\ AllMissing'
    BY <2>1 DEF SInv, AllSound, Sound, AllMissing, Missing, HasRow, vars
  <2> QED
    BY <2>1, <2>2, <2>3 DEF SInv
<1>5. CASE Deliver
  <2>1. /\ StreamShape' /\ StreamOK' /\ UNCHANGED <<vars, pruned>>
        /\ ReadItems' \subseteq ReadItems /\ Reading
        /\ stream'.range = stream.range /\ stream'.had = stream.had
        /\ stream'.next = stream.next
        /\ Len(stream.got) \in Nat /\ Len(stream.chan) \in Nat
    BY <1>5, DeliverEffect
  <2>2. PICK item \in ItemType :
          /\ stream'.got = Append(stream.got, item)
          /\ item.status = "ok" =>
               /\ Reading' /\ Items' = Items
               /\ Len(stream'.chan) = Len(stream.chan) - 1
          /\ item.status # "ok" => stream'.client = "failed"
    BY <1>5, DeliverEffect
  <2>3. InOrder'
    <3>1. CASE item.status # "ok"
      BY <2>2, <3>1 DEF InOrder, Reading
    <3>2. CASE item.status = "ok"
      <4> DEFINE got == stream.got
                 m == Len(stream.got)
                 n == Len(stream.chan)
                 m1 == Len(stream'.got)
                 n1 == Len(stream'.chan)
                 a == stream.range.start
      <4>1. /\ m \in Nat /\ n \in Nat /\ n1 = n - 1
            /\ got \in Seq(ItemType) /\ m = Len(got)
        BY <2>1, <2>2, <3>2 DEF SInv, StreamShape
      <4>2. m1 = m + 1
        BY <2>2, <4>1, AppendFacts
      <4>3. stream.next = a + m + n /\ a \in Nat
        BY <2>1, RangeAssumption DEF SInv, InOrder, StreamOK, NoStream, Reading
      <4>4. \A i \in DOMAIN stream'.got : stream'.got[i].status = "ok"
        <5> HIDE DEF got
        <5>1. Append(got, item) \in Seq(ItemType) /\ DOMAIN got = 1 .. m
          BY <4>1, AppendFacts, LenProperties
        <5>2. DOMAIN Append(got, item) = 1 .. m + 1
          BY <5>1, <4>1, AppendFacts, LenProperties
        <5>3. /\ \A i \in 1 .. m : Append(got, item)[i] = got[i]
              /\ Append(got, item)[m + 1] = item
          BY <4>1, AppendFacts
        <5>4. \A i \in 1 .. m : got[i].status = "ok"
          BY <5>1, <2>1 DEF SInv, InOrder, got
        <5>5. stream'.got = Append(got, item)
          BY <2>2 DEF got
        <5> HIDE DEF m
        <5> QED
          BY <5>2, <5>3, <5>4, <5>5, <3>2, <4>1
      <4> HIDE DEF m, n, m1, n1, a
      <4>5. stream.next = a + m1 + n1
        BY <4>1, <4>2, <4>3
      <4> QED
        BY <2>1, <2>2, <3>2, <4>4, <4>5 DEF SInv, InOrder, m1, n1, a
    <3> QED
      BY <3>1, <3>2
  <2>4. AllSound' /\ AllMissing'
    BY <2>1 DEF SInv, AllSound, Sound, AllMissing, Missing, HasRow, vars
  <2> QED
    BY <2>1, <2>3, <2>4 DEF SInv
<1>6. CASE SendFails \/ EndStream \/ CancelStream
  BY <1>6, QuietEffect
<1>7. CASE ForgetStream
  BY <1>7, NoStreamInv DEF ForgetStream, SInv, StreamOK
<1>8. CASE UNCHANGED streamVars
  BY <1>8
  DEF streamVars, vars, SInv, StreamShape, StreamOK, InOrder, AllSound, Sound,
      AllMissing, Missing, Items, ReadItems, Reading, Producing, HasRow
<1> QED
  BY <1>1, <1>2, <1>3, <1>4, <1>5, <1>6, <1>7, <1>8 DEF StreamNext, StreamTask
-----------------------------------------------------------------------------
(* The theorems. *)

(* The strengthened invariant of the stream. *)
THEOREM StreamAlways == StreamSpec => [](IInv /\ SInv)
<1>1. StreamInit => IInv /\ SInv
  <2> SUFFICES ASSUME StreamInit PROVE IInv /\ SInv
    OBVIOUS
  <2>1. stream = NoStream /\ pruned = FALSE
    BY DEF StreamInit
  <2>2. StreamShape
    BY <2>1 DEF NoStream, StreamShape, Clients
  <2>3. StreamOK
    <3>1. stream.hand = None /\ stream.chan = << >>
      BY <2>1 DEF NoStream
    <3>2. Len(stream.chan) <= ChannelSize
      BY <3>1, RangeAssumption
    <3> QED
      BY <2>1, <3>1, <3>2 DEF StreamOK
  <2>4. InOrder /\ AllSound /\ AllMissing
    BY <2>1, NothingRead DEF NoStream, InOrder, AllSound, AllMissing
  <2> QED
    BY <2>2, <2>3, <2>4, InitIInv DEF StreamInit, SInv
<1>2. IInv /\ SInv /\ [StreamNext]_streamVars => IInv' /\ SInv'
  <2> SUFFICES ASSUME IInv, SInv, [StreamNext]_streamVars PROVE IInv' /\ SInv'
    OBVIOUS
  <2>1. [Next]_vars
    BY DEF StreamNext, streamVars, IngestMeanwhile, OpenStream, StreamTask, ReadRow,
           ReadFails, SendItem, SendFails, Deliver, EndStream, CancelStream,
           ForgetStream
  <2> QED
    BY <2>1, StepIInv, StepSInv
<1> QED
  BY <1>1, <1>2, PTL DEF StreamSpec

(* Type correctness of the stream and its channel. *)
THEOREM StreamTypeCorrect == StreamSpec => []StreamTypeOK
<1>1. IInv /\ SInv => StreamTypeOK
  BY DEF IInv, SInv, StreamShape, StreamOK, Clients, StreamTypeOK
<1> QED
  BY <1>1, StreamAlways, PTL

(* Between two prunes a stream is a snapshot, although every row is read   *)
(* under a lock of its own.                                                *)
THEOREM SnapshotUntilPruned == StreamSpec => []StreamIsSnapshot
<1>1. SInv => StreamIsSnapshot
  BY ItemsInReadItems DEF SInv, StreamIsSnapshot, InOrder, AllSound, Sound
<1> QED
  BY <1>1, StreamAlways, PTL

(* No race between the stream and the ingest task makes a stored height    *)
(* read as not indexed.                                                    *)
THEOREM StoredHeightsAreServed == StreamSpec => []StoredHeightsServed
<1>1. SInv => StoredHeightsServed
  BY ItemsInReadItems DEF SInv, StoredHeightsServed, AllMissing, Missing
<1> QED
  BY <1>1, StreamAlways, PTL
-----------------------------------------------------------------------------
(* The stream implements BlockFeed. *)

Taken == IF Reading THEN Items ELSE stream.got

LEMMA TakeStep ==
  ASSUME IInv, SInv, ReadRow \/ ReadFails
  PROVE  [Feed!Next]_(Feed!feedVars)
<1>1. PICK item \in ItemType :
        /\ NewFinding(item)
        /\ stream' = [stream EXCEPT !.hand = item]
        /\ Items' = Append(Items, item)
  BY ReadEffect DEF IInv
<1>2. Reading' = Reading /\ Producing /\ stream.hand = None
  BY ReadEffect DEF IInv, ReadRow, ReadFails
<1>3. /\ stream'.range = stream.range /\ stream'.got = stream.got
      /\ stream'.client = stream.client
  BY <1>1 DEF SInv, StreamShape
<1>4. CASE Reading
  <2> DEFINE a == stream.range.start
  <2>1. a + Len(Items) = stream.next
    <3> DEFINE m == Len(stream.got)
               n == Len(stream.chan)
    <3>1. stream.got \in Seq(ItemType) /\ stream.chan \in Seq(ItemType)
      BY DEF SInv, StreamShape
    <3>2. Items = stream.got \o stream.chan
      BY <1>2, ItemsFacts DEF SInv
    <3>3. Len(Items) = m + n /\ m \in Nat /\ n \in Nat
      BY <3>1, <3>2, ConcatProperties, LenProperties
    <3>4. stream.next = a + m + n /\ a \in Nat
      BY <1>4, RangeAssumption DEF SInv, InOrder, StreamOK, NoStream, Reading
    <3> HIDE DEF m, n, a
    <3> QED
      BY <3>3, <3>4
  <2>2. stream.next <= stream.range.end
    BY <1>2 DEF Producing
  <2>3. item \in Feed!Findings(stream.next)
    <3>1. CASE item.status = "ok"
      <4>1. /\ item.height = stream.next /\ stream.next \in DOMAIN rows
            /\ item.row = rows[stream.next]
        BY <1>1, <3>1 DEF NewFinding, Sound, HasRow
      <4>2. item = [height |-> stream.next, status |-> "ok", row |-> rows[stream.next]]
        BY <4>1, <3>1 DEF ItemType
      <4> QED
        BY <4>1, <4>2 DEF Feed!Findings
    <3>2. CASE item.status = "not_found"
      <4>1. item.height = stream.next /\ stream.next \notin DOMAIN rows
        BY <1>1, <3>2 DEF NewFinding, HasRow
      <4>2. item = [height |-> stream.next, status |-> "not_found", row |-> None]
        BY <4>1, <3>2 DEF ItemType
      <4> QED
        BY <4>1, <4>2 DEF Feed!Findings
    <3>3. CASE item.status = "internal"
      <4>1. item.height = stream.next
        BY <1>1 DEF NewFinding
      <4>2. item = [height |-> stream.next, status |-> "internal", row |-> None]
        BY <4>1, <3>3 DEF ItemType
      <4> QED
        BY <4>2 DEF Feed!Findings
    <3>4. item.status \in {"ok", "not_found", "internal"}
      BY DEF ItemType
    <3> QED
      BY <3>1, <3>2, <3>3, <3>4
  <2>4. Feed!Take
    BY <1>1, <1>2, <1>3, <1>4, <2>1, <2>2, <2>3 DEF Feed!Take, Reading
  <2> QED
    BY <2>4 DEF Feed!Next
<1>5. CASE ~Reading
  BY <1>2, <1>3, <1>5 DEF Feed!feedVars
<1> QED
  BY <1>4, <1>5

LEMMA GiveStep ==
  ASSUME SInv, Deliver
  PROVE  Feed!Give
<1>1. /\ Reading /\ stream'.range = stream.range /\ Len(stream.got) \in Nat
  BY DeliverEffect
<1>2. PICK item \in ItemType :
        /\ Len(stream.got) < Len(Items)
        /\ Items[Len(stream.got) + 1] = item
        /\ stream'.got = Append(stream.got, item)
        /\ item.status = "ok" => Reading' /\ Items' = Items
        /\ item.status # "ok" => stream'.client = "failed"
  BY DeliverEffect
<1>3. CASE item.status = "ok"
  BY <1>1, <1>2, <1>3 DEF Feed!Give, Reading
<1>4. CASE item.status # "ok"
  BY <1>1, <1>2, <1>4 DEF Feed!Give, Reading
<1> QED
  BY <1>3, <1>4

LEMMA CompleteStep ==
  ASSUME SInv, EndStream
  PROVE  Feed!Complete
<1> DEFINE m == Len(stream.got)
           a == stream.range.start
           b == stream.range.end
<1>1. /\ Reading /\ stream.chan = << >> /\ ~Producing /\ stream.hand = None
      /\ stream # NoStream
  BY DEF EndStream, SInv, StreamOK, Reading, NoStream
<1>2. /\ stream'.range = stream.range /\ stream'.got = stream.got
      /\ stream'.client = "complete"
  BY DEF EndStream, SInv, StreamShape
<1>3. stream.range \in Ranges /\ a \in Nat /\ b \in Nat
  BY <1>1, RangeAssumption DEF SInv, StreamOK
<1>4. Items = stream.got
  <2>1. stream.got \in Seq(ItemType) /\ Items = stream.got \o << >>
    BY <1>1, ItemsFacts DEF SInv
  <2> QED
    BY <2>1, ConcatEmptySeq
<1>5. m = b - a + 1
  <2>1. m \in Nat /\ Len(<< >>) = 0
    BY LenProperties DEF SInv, StreamShape
  <2>2. stream.next = a + m + 0 /\ stream.next <= b + 1
    BY <1>1, <2>1 DEF SInv, InOrder
  <2>3. ~(stream.next <= b)
    BY <1>1, <1>3, RangeAssumption DEF Producing
  <2> HIDE DEF m, a, b
  <2> QED
    BY <2>1, <2>2, <2>3, <1>3
<1> QED
  BY <1>1, <1>2, <1>4, <1>5 DEF Feed!Complete, Reading

LEMMA FeedStep ==
  ASSUME IInv, SInv, [StreamNext]_streamVars
  PROVE  [Feed!Next]_(Feed!feedVars)
<1>1. CASE stream' = stream
  BY <1>1 DEF Feed!feedVars, Items, Reading
<1>2. CASE stream' = NoStream
  <2>1. CASE stream = NoStream
    BY <1>1, <1>2, <2>1
  <2>2. CASE stream # NoStream
    <3>1. stream.client # "none"
      BY <2>2 DEF SInv, StreamOK
    <3>2. Feed!Idle'
      BY <1>2 DEF Feed!Idle, NoStream, Reading
    <3>3. Feed!Close
      BY <3>1, <3>2 DEF Feed!Close, Feed!Idle
    <3> QED
      BY <3>3 DEF Feed!Next
  <2> QED
    BY <2>1, <2>2
<1>3. ASSUME NEW r \in Ranges, OpenStream(r) PROVE Feed!Open
  <2>1. /\ Items' = << >> /\ Reading' /\ stream = NoStream
        /\ stream'.range = r /\ stream'.got = << >>
    BY <1>3, OpenEffect DEF IInv
  <2> QED
    BY <2>1 DEF Feed!Open, Feed!Idle, NoStream, Reading
<1>4. CASE SendItem
  BY <1>4, SendEffect DEF Feed!feedVars, Reading
<1>5. CASE SendFails
  <2>1. /\ stream'.range = stream.range /\ stream'.got = stream.got
        /\ stream'.client = stream.client /\ ~Reading
    BY <1>5 DEF SendFails, SInv, StreamShape
  <2> QED
    BY <2>1 DEF Feed!feedVars, Reading
<1>6. CASE CancelStream
  <2>1. /\ stream'.range = stream.range /\ stream'.got = << >>
        /\ stream'.client = "gone" /\ Reading
    BY <1>6 DEF CancelStream, SInv, StreamShape
  <2>2. Feed!Leave
    BY <2>1 DEF Feed!Leave, Reading
  <2> QED
    BY <2>2 DEF Feed!Next
<1> QED
  BY <1>1, <1>2, <1>3, <1>4, <1>5, <1>6, TakeStep, GiveStep, CompleteStep
  DEF StreamNext, StreamTask, IngestMeanwhile, ForgetStream, streamVars, Feed!Next

(* A response that ends well has given a block for every height of its     *)
(* range, each as it was stored when it was read; whatever the ingest task *)
(* prunes or stores meanwhile, nothing is skipped, repeated or made up.    *)
THEOREM ImplementsBlockFeed == StreamSpec => RefinesBlockFeed
<1>1. StreamInit => Feed!Init
  BY DEF StreamInit, Feed!Init, Feed!Idle, NoStream, Reading
<1>2. IInv /\ SInv /\ [StreamNext]_streamVars => [Feed!Next]_(Feed!feedVars)
  BY FeedStep
<1> QED
  BY <1>1, <1>2, StreamAlways, PTL DEF StreamSpec, RefinesBlockFeed, Feed!Spec
=============================================================================
