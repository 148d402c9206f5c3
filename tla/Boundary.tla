------------------------------ MODULE Boundary ------------------------------
(***************************************************************************)
(* What a record and an error text become when they cross the C ABI.  The  *)
(* Go side (bridge/main.go, adapter_franz.go) flattens a record into       *)
(* pointers and lengths, its headers into one C allocation; the Rust side  *)
(* (src/trampolines.rs) borrows them back.  The handler's error text       *)
(* returns through a fixed buffer, and crosses again as the reason of the  *)
(* dead letter.                                                            *)
(*                                                                         *)
(* A byte string is a sequence; a pointer is a position in the block it    *)
(* points into, or NullPtr; numbers cross by position.  A UTF-8 text is    *)
(* the sequence of its bytes <<w, k>>: byte k of a character of w bytes.   *)
(***************************************************************************)
EXTENDS Integers, Sequences, SequencesExt

CONSTANTS
  Null,        \* Go's nil slice, Rust's None
  ErrBufCap,   \* bytes in the error buffer (1024 in the code)
  Records,     \* the records that may arrive
  Texts,       \* the error texts a host handler or llingr_init may have
  TopicName    \* the topic the engine was built for

\* No character is wider than the buffer.
ASSUME CapAssumption == ErrBufCap \in Nat /\ ErrBufCap >= 4

\* A text of whole characters.
IsUtf8(text) ==
  \A i \in 1..Len(text) :
    LET width == text[i][1]  k == text[i][2] IN
    /\ width \in 1..4 /\ k \in 1..width
    /\ k > 1 => i > 1 /\ text[i - 1] = <<width, k - 1>>
    /\ k < width => i < Len(text) /\ text[i + 1] = <<width, k + 1>>

\* A text is a Rust String, or a Go string of one.
ASSUME TextsAssumption == \A text \in Texts : text \in Seq(Nat \X Nat) /\ IsUtf8(text)

\* Go's types; a consumer of one topic is given records of that topic.
ASSUME RecordsAssumption ==
  \A rec \in Records :
    /\ rec.topic = TopicName
    /\ rec.key \in Seq(Nat) \cup {Null}
    /\ rec.partition \in Nat
    /\ rec.value \in Seq(Nat) \cup {Null}
    /\ rec.headers \in Seq([key : Seq(Nat), value : Seq(Nat) \cup {Null}])

\* Null is neither a byte string nor a text.
ASSUME NullAssumption == Null \notin Seq(Nat) /\ Null \notin Seq(Nat \X Nat)

NullPtr    == -1
InvalidRun == 255             \* a byte that no UTF-8 string contains
Fallback   == << <<0, 0>> >>  \* the text that goes with a return code

VARIABLES
  record,    \* the broker's record
  wire,      \* the arguments of the C call in progress, or Null
  seen,      \* the Message the handler in progress was given, or Null
  told,      \* the error text the host, or llingr_init, had to report
  errBuf,    \* the bytes left in the error buffer
  reason,    \* the text at the far end: a dead letter's reason, an init error
  step       \* where the crossing is

vars == <<record, wire, seen, told, errBuf, reason, step>>

-----------------------------------------------------------------------------
(* Go to Rust: the record *)

\* mapFranzTimestampType, then decode_timestamp.
MapFranzTimestampType(t) == CASE t = 0 -> 1 [] t = 1 -> 2 [] OTHER -> 0

DecodeTimestamp(kind, millis) ==
  CASE kind = 1 -> [kind |-> "CreateTime", millis |-> millis]
    [] kind = 2 -> [kind |-> "LogAppendTime", millis |-> millis]
    [] OTHER    -> [kind |-> "NotAvailable"]

\* External: the two texts the adapter makes of a key, of letters that no raw
\* key has: base64, and a number in decimal.
Base64(bytes) == [i \in DOMAIN bytes |-> 1000 + bytes[i]]
Decimal(n)    == <<2000 + n>>

\* External: the adapter's key is the raw one, base64 if that is binary, and
\* the partition number where there is none.
EnvelopeKey(rec) ==
  IF rec.key = Null THEN Decimal(rec.partition)
  ELSE IF InvalidRun \in ToSet(rec.key) THEN Base64(rec.key) ELSE rec.key

BorrowBytes(bytes, ref) ==
  IF ref.ptr = NullPtr \/ ref.len <= 0
  THEN <<>>
  ELSE SubSeq(bytes, ref.ptr + 1, ref.ptr + ref.len)

\* Mutant: a null value is marshalled as an empty one.
MarshalValueNullIsEmpty(value) ==
  IF value \in {Null, <<>>} THEN [ptr |-> NullPtr, len |-> 0]
                           ELSE [ptr |-> 0, len |-> Len(value)]

MarshalValue(value) ==
  CASE value = Null -> [ptr |-> NullPtr, len |-> -1]
    [] value = <<>> -> [ptr |-> NullPtr, len |-> 0]
    [] OTHER        -> [ptr |-> 0, len |-> Len(value)]

BorrowValue(bytes, ref) == IF ref.len < 0 THEN Null ELSE BorrowBytes(bytes, ref)

ValueLen(value) == IF value = Null THEN 0 ELSE Len(value)

\* Mutant: the values are left out of the sum.
ArenaSizeKeysOnly(headers) ==
  LET total[n \in 0..Len(headers)] == IF n = 0 THEN 0 ELSE total[n - 1] + Len(headers[n].key)
  IN  total[Len(headers)]

\* The first loop of marshalHeaders: how many bytes to allocate.
ArenaSize(headers) ==
  LET total[n \in 0..Len(headers)] ==
        IF n = 0 THEN 0
        ELSE total[n - 1] + Len(headers[n].key) + ValueLen(headers[n].value)
  IN  total[Len(headers)]

\* The bytes put() appends for each header in turn.
ArenaParts(headers) ==
  [p \in 1..(2 * Len(headers)) |->
     LET h == headers[(p + 1) \div 2]
     IN  IF p % 2 = 1 THEN h.key ELSE IF h.value = Null THEN <<>> ELSE h.value]

\* The second loop of marshalHeaders: the cursor runs over the parts.
MarshalHeaders(headers) ==
  LET parts  == ArenaParts(headers)
      cursor[p \in 0..Len(parts)] == IF p = 0 THEN 0 ELSE cursor[p - 1] + Len(parts[p])
      put(p) == [ptr |-> IF parts[p] = <<>> THEN NullPtr ELSE cursor[p - 1],
                 len |-> Len(parts[p])]
  IN  [size    |-> ArenaSize(headers),
       bytes   |-> FlattenSeq(parts),
       structs |-> [i \in 1..Len(headers) |->
                      [key   |-> put(2 * i - 1),
                       value |-> IF headers[i].value = Null
                                 THEN [ptr |-> NullPtr, len |-> -1]
                                 ELSE put(2 * i)]]]

Utf8OrEmpty(bytes) == IF InvalidRun \in ToSet(bytes) THEN <<>> ELSE bytes

BorrowHeaders(arena) ==
  [i \in DOMAIN arena.structs |->
     [key   |-> Utf8OrEmpty(BorrowBytes(arena.bytes, arena.structs[i].key)),
      value |-> BorrowValue(arena.bytes, arena.structs[i].value)]]

\* C.CString of the key, and the four numbers in the order of the arguments.
Marshal(rec) ==
  [key      |-> [ptr |-> 0, len |-> Len(EnvelopeKey(rec))],
   keyBlock |-> Append(EnvelopeKey(rec), 0),
   value    |-> MarshalValue(rec.value),
   bytes    |-> IF rec.value = Null THEN <<>> ELSE rec.value,
   numbers  |-> <<rec.partition, rec.offset, MapFranzTimestampType(rec.tsType), rec.millis>>,
   headers  |-> MarshalHeaders(rec.headers)]

\* The topic is the handler set's; a key is always Some.
Borrow(w) ==
  [key       |-> BorrowBytes(w.keyBlock, w.key),
   value     |-> BorrowValue(w.bytes, w.value),
   topic     |-> TopicName,
   partition |-> w.numbers[1],
   offset    |-> w.numbers[2],
   timestamp |-> DecodeTimestamp(w.numbers[3], w.numbers[4]),
   headers   |-> BorrowHeaders(w.headers)]

-----------------------------------------------------------------------------
(* The error text *)

StartsRune(text, n) == text[n + 1][2] = 1     \* of the byte at index n, from 0

\* Mutant: the text is cut at the capacity.
WriteCErrCutsAnywhere(text) ==
  SubSeq(text, 1, IF Len(text) < ErrBufCap THEN Len(text) ELSE ErrBufCap)

\* write_c_err: n is a boundary at either end of the text, and before a start.
WriteCErr(text) ==
  LET most        == IF Len(text) < ErrBufCap THEN Len(text) ELSE ErrBufCap
      boundary(n) == n = Len(text) \/ StartsRune(text, n)
      back[n \in 0..most] == IF n > 0 /\ ~boundary(n) THEN back[n - 1] ELSE n
  IN  SubSeq(text, 1, back[most])

\* truncateToRuneBoundary, as writeInitErr uses it.
WriteInitErr(text) ==
  LET back[n \in 0..ErrBufCap] == IF n > 0 /\ ~StartsRune(text, n) THEN back[n - 1] ELSE n
  IN  IF Len(text) > ErrBufCap THEN SubSeq(text, 1, back[ErrBufCap]) ELSE text

\* makeProcessMessage's errLen check, and init_failure_text's.
TextOrFallback(bytes) == IF Len(bytes) > 0 THEN bytes ELSE Fallback

-----------------------------------------------------------------------------
Init ==
  /\ record \in Records
  /\ wire = Null
  /\ seen = Null
  /\ told = Null
  /\ errBuf = <<>>
  /\ reason = Null
  /\ step = "arrived"

\* llingr_init failed with an error text.
InitError(text) ==
  /\ step = "arrived"
  /\ told' = text
  /\ errBuf' = WriteInitErr(text)
  /\ reason' = TextOrFallback(WriteInitErr(text))
  /\ step' = "initFailed"
  /\ UNCHANGED <<record, wire, seen>>

\* The closure marshals the record and calls the trampoline.
CallProcess ==
  /\ step = "arrived"
  /\ wire' = Marshal(record)
  /\ seen' = Borrow(Marshal(record))
  /\ step' = "processing"
  /\ UNCHANGED <<record, told, errBuf, reason>>

\* The handler succeeds: the closure frees what it marshalled.
ProcessOk ==
  /\ step = "processing"
  /\ wire' = Null
  /\ seen' = Null
  /\ step' = "done"
  /\ UNCHANGED <<record, told, errBuf, reason>>

\* The handler fails; its text becomes the closure's error.
ProcessErr(text) ==
  /\ step = "processing"
  /\ told' = text
  /\ errBuf' = WriteCErr(text)
  /\ wire' = Null
  /\ seen' = Null
  /\ step' = "failed"
  /\ UNCHANGED <<record, reason>>

\* The record is marshalled again, with the reason.
CallDeadLetter ==
  /\ step = "failed"
  /\ wire' = Marshal(record)
  /\ seen' = Borrow(Marshal(record))
  /\ reason' = TextOrFallback(errBuf)
  /\ step' = "recording"
  /\ UNCHANGED <<record, told, errBuf>>

DeadLetterReturns ==
  /\ step = "recording"
  /\ wire' = Null
  /\ seen' = Null
  /\ step' = "done"
  /\ UNCHANGED <<record, told, errBuf, reason>>

Next ==
  \/ \E text \in Texts : InitError(text) \/ ProcessErr(text)
  \/ CallProcess
  \/ ProcessOk
  \/ CallDeadLetter
  \/ DeadLetterReturns

Spec == Init /\ [][Next]_vars

-----------------------------------------------------------------------------
(* Properties *)

\* What a handler ought to be given for a record.
Faithful(rec) ==
  [key       |-> IF rec.key = Null THEN Decimal(rec.partition)
                 ELSE IF InvalidRun \in ToSet(rec.key) THEN Base64(rec.key) ELSE rec.key,
   value     |-> rec.value,
   topic     |-> rec.topic,
   partition |-> rec.partition,
   offset    |-> rec.offset,
   timestamp |-> CASE rec.tsType = 0 -> [kind |-> "CreateTime", millis |-> rec.millis]
                   [] rec.tsType = 1 -> [kind |-> "LogAppendTime", millis |-> rec.millis]
                   [] OTHER          -> [kind |-> "NotAvailable"],
   headers   |-> [i \in DOMAIN rec.headers |->
                    [key |-> Utf8OrEmpty(rec.headers[i].key),
                     value |-> rec.headers[i].value]]]

(***************************************************************************)
(* Both handlers are given the record: its partition, offset, timestamp    *)
(* and key each in its own place of the argument list, a null value or     *)
(* header null and an empty one empty, headers in their order with their   *)
(* duplicates, and no byte of one field in another (makeProcessMessage,    *)
(* makeWriteDeadLetter, marshalValue and marshalHeaders against            *)
(* process_trampoline, deadletter_trampoline and borrow_headers).          *)
(*                                                                         *)
(* The key is the one trampolines.rs:159 and docs/processing.md:82 name:   *)
(* base64 if binary, the partition number if absent.  So no key is ever    *)
(* None, though docs/processing.md:80 says `key()` is "`None` for a        *)
(* keyless record", and line 118 tells an empty key from "the `None` of a  *)
(* keyless record": with process_trampoline's Some(...) around every key   *)
(* that is not what a handler sees.                                        *)
(***************************************************************************)
HandlerSeesRecord == seen # Null => seen = Faithful(record)

(***************************************************************************)
(* marshalHeaders' two loops agree: what its second loop writes fills the  *)
(* block its first loop sized, and every header points inside it.          *)
(***************************************************************************)
ArenaHoldsHeaders ==
  wire # Null =>
    LET arena == wire.headers IN
    /\ Len(arena.bytes) = arena.size
    /\ \A i \in DOMAIN arena.structs : \A ref \in {arena.structs[i].key, arena.structs[i].value} :
         ref.ptr # NullPtr => ref.ptr >= 0 /\ ref.ptr + ref.len <= arena.size

(***************************************************************************)
(* An error text crosses whole if it fits, and otherwise is cut to the     *)
(* longest prefix of whole characters the buffer holds: no rune is split,  *)
(* no text is lost that would fit, and only an empty one gives way to the  *)
(* fallback (write_c_err; truncateToRuneBoundary for llingr_init).         *)
(***************************************************************************)
TextCutAtRune ==
  told # Null =>
    /\ Len(errBuf) <= ErrBufCap
    /\ IsUtf8(errBuf)
    /\ errBuf = SubSeq(told, 1, Len(errBuf))
    /\ \A n \in (Len(errBuf) + 1)..Len(told) :
         n > ErrBufCap \/ ~IsUtf8(SubSeq(told, 1, n))
    /\ reason = Fallback => told = <<>>
=============================================================================
