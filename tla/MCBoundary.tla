----------------------------- MODULE MCBoundary -----------------------------
(***************************************************************************)
(* Notices over every record of up to two headers with short fields, and   *)
(* every text of up to three characters of one to three bytes: one that    *)
(* fits the buffer of ErrBufCap bytes, one that ends at it, one cut in each *)
(* place; and over notices whose figures all differ, with strings that are *)
(* empty, plain and not UTF-8.                                             *)
(***************************************************************************)
EXTENDS Notices

MCTopicName == <<7>>

Values  == {Null, <<>>, <<7>>, <<8, 9>>}
HdrKeys == {<<>>, <<1>>, <<2, 3>>, <<InvalidRun>>}
Headers == [key : HdrKeys, value : Values]

MCRecords ==
  [topic : {MCTopicName}, key : {Null, <<>>, <<4>>, <<4, InvalidRun>>}, partition : {0, 5},
   offset : {11}, tsType : {-1, 0, 1}, millis : {12}, value : Values, headers : {<<>>}]
  \cup
  [topic : {MCTopicName}, key : {<<4>>}, partition : {5}, offset : {11}, tsType : {0},
   millis : {12}, value : {Null, <<6>>}, headers : UNION {[1..n -> Headers] : n \in 0..2}]

Bytes(widths) == FlattenSeq([c \in DOMAIN widths |-> [k \in 1..widths[c] |-> <<widths[c], k>>]])
MCTexts == {Bytes(widths) : widths \in UNION {[1..n -> 1..3] : n \in 0..3}}

MCPackets ==
  {[f \in ToSet(Counters) |->
      IF f = "traits" THEN traits ELSE CHOOSE i \in DOMAIN Counters : Counters[i] = f]
   : traits \in {0, 5, 15}}

Strings    == {<<>>, <<4>>, <<5, InvalidRun, 6>>}
Brokers    == {[id |-> <<1>>, host |-> host, port |-> <<2, 2>>, rack |-> rack] : host, rack \in Strings}
Partitions ==
  {[ts_unix_ns |-> 21, received_bytes |-> n, transmitted_bytes |-> 23, received_message_count |-> 24,
    compressed_bytes |-> 25, uncompressed_bytes |-> 26, id |-> 27, leader |-> <<1>>,
    compression |-> codec] : n \in {-1, 22}, codec \in Strings}
MCFlushes  ==
  [ts_unix_ns : {28}, stats_interval_ns : {2999999},
   brokers    : {<<>>} \cup [1..1 -> Brokers] \cup {<<b, [b EXCEPT !.id = <<3>>]>> : b \in Brokers},
   partitions : {<<>>} \cup [1..1 -> Partitions] \cup [1..2 -> Partitions],
   metrics_id : {<<8>>}, topic : Strings, consumer_group : {<<9>>}]

MCLines       == [level : ToSet(Levels), text : Strings]
MCKnownFields == {"summary", "throughput"}
MCSnapshots   == UNION {[fields -> {1, 2}] : fields \in SUBSET {"summary", "throughput", "added"}}
=============================================================================
