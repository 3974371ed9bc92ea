-------------------------------- MODULE Codecs --------------------------------
(***************************************************************************)
(* The codecs (codec/scale.h, codec/bcs.h, codec/rlp.h) over a stream:     *)
(* values are written one after the other and read back by their types;    *)
(* by BCS each into an object of its type, which is new or holds an        *)
(* earlier value.  A byte has ByteBits bits instead of 8: every form of    *)
(* compact integer occurs with small numbers.  RLP has bytes below Base,   *)
(* and Single, ShortMax and ListMod where the code has 0x80, 55 and 0xc0,  *)
(* so that every form of prefix occurs with short values.                  *)
(*                                                                         *)
(* A type of SCALE or BCS is a record with a kind: "int" (of n bytes; also *)
(* an enumeration), "wide" (uint256_t), "compact" and "flag" (Varint and   *)
(* optional<bool> of SCALE), "varint" and "map" (of BCS), "option",        *)
(* "result", "vector", "array", "bytes" (also a string), "fixed", "struct" *)
(* (also a tuple), "variant" and "pointer".  An option, or a pointer of    *)
(* BCS, is <<>> or <<v>>, a result <<0, v>> or <<1, e>>, a map a sequence  *)
(* of pairs in the order of their keys, a variant <<index, v>>.            *)
(*                                                                         *)
(* The types of RLP are those the code has operators for: "int" (of        *)
(* IntBytes bytes) and "wide"; "bytes" (a vector of bytes), "fixed" (a     *)
(* byte sequence whose length the reader knows) and "string"; "span",      *)
(* "vector" and "struct", of values.                                       *)
(***************************************************************************)
EXTENDS Integers, Sequences

CONSTANTS ByteBits, WordBytes,     \* the bits of a byte, the bytes of a uint64_t
          Base, Single, ShortMax, ListMod, IntBytes,
          ScaleValues, BcsValues, RlpValues,  \* the values that are written: [type, v]
          MaxUnread                \* bound: values written and not read

VARIABLES stream,                  \* the bytes of the datastream
          unread,                  \* history: the values written and not read
          read                     \* the last value read, and what was written

streamVars == <<stream, unread, read>>

Byte == 2^ByteBits

(* The n bytes of a number, the lowest first.                              *)
LittleEndian(v, n) == [i \in 1..n |-> (v \div Byte^(i - 1)) % Byte]

RECURSIVE Number(_)
Number(s) == IF s = <<>> THEN 0 ELSE Head(s) + Byte * Number(Tail(s))

(* uint256_t: four words, the lowest first.                                *)
EncodeWide(v) ==
  LET word(i) == LittleEndian(v \div Byte^(WordBytes * i), WordBytes)
  IN word(0) \o word(1) \o word(2) \o word(3)

Got(v, rest) == [v |-> v, rest |-> rest]

Take(s, n) == Got(SubSeq(s, 1, n), SubSeq(s, n + 1, Len(s)))

ReadInt(s, n) == LET d == Take(s, n) IN Got(Number(d.v), d.rest)

DecodeWide(s) == ReadInt(s, 4 * WordBytes)

Init == stream = <<>> /\ unread = <<>> /\ read = <<>>

(* A value is written as these bytes.                                      *)
Write(value, bytes) ==
  /\ Len(unread) < MaxUnread
  /\ stream' = stream \o bytes
  /\ unread' = Append(unread, value)
  /\ UNCHANGED read

-----------------------------------------------------------------------------
(* SCALE *)
(* The bytes of a number without the zeros at the high end.                *)
RECURSIVE Trimmed(_)
Trimmed(v) == IF v = 0 THEN <<>> ELSE <<v % Byte>> \o Trimmed(v \div Byte)

(* operator<< of Varint: the two low bits tell the form.                   *)
EncodeCompact(v) ==
  IF v < 2^(ByteBits - 2) THEN <<v * 4>>
  ELSE IF v < 2^(2 * ByteBits - 2) THEN LittleEndian(v * 4 + 1, 2)
  ELSE IF v < 2^(4 * ByteBits - 2) THEN LittleEndian(v * 4 + 2, 4)
  ELSE <<(Len(Trimmed(v)) - 4) * 4 + 3>> \o Trimmed(v)

EncodeFlag(v) == IF v = <<>> THEN <<0>> ELSE IF v[1] THEN <<1>> ELSE <<2>>

RECURSIVE Encode(_, _), EncodeAll(_, _), EncodeVariant(_, _), EncodePointer(_, _)
Encode(t, v) ==
  CASE t.kind = "int" -> LittleEndian(v, t.n)
    [] t.kind = "wide" -> EncodeWide(v)
    [] t.kind = "compact" -> EncodeCompact(v)
    [] t.kind = "flag" -> EncodeFlag(v)
    [] t.kind = "option" -> IF v = <<>> THEN <<0>> ELSE <<1>> \o Encode(t.of, v[1])
    [] t.kind = "result" -> <<v[1]>> \o Encode(t.of[v[1] + 1], v[2])
    [] t.kind = "vector" -> EncodeCompact(Len(v)) \o EncodeAll([i \in DOMAIN v |-> t.of], v)
    [] t.kind = "array" -> EncodeAll([i \in DOMAIN v |-> t.of], v)
    [] t.kind = "bytes" -> EncodeCompact(Len(v)) \o v
    [] t.kind = "fixed" -> v
    [] t.kind = "struct" -> EncodeAll(t.of, v)
    [] t.kind = "variant" -> EncodeVariant(t, v)
    [] t.kind = "pointer" -> EncodePointer(t, v)

EncodeAll(ts, vs) ==
  IF vs = <<>> THEN <<>> ELSE Encode(Head(ts), Head(vs)) \o EncodeAll(Tail(ts), Tail(vs))

EncodeVariant(t, v) == <<v[1]>> \o Encode(t.of[v[1] + 1], v[2])

(* A pointer must not be null, and leaves no trace.                        *)
EncodePointer(t, v) == Encode(t.of, v)

(* operator>> of Varint                                                    *)
DecodeCompact(s) ==
  LET short(n) == LET d == ReadInt(s, n) IN Got(d.v \div 4, d.rest)
  IN CASE Head(s) % 4 = 0 -> short(1)
       [] Head(s) % 4 = 1 -> short(2)
       [] Head(s) % 4 = 2 -> short(4)
       [] Head(s) % 4 = 3 -> ReadInt(Tail(s), Head(s) \div 4 + 4)

DecodeFlag(s) == Got(IF Head(s) = 0 THEN <<>> ELSE <<Head(s) - 1 = 0>>, Tail(s))

(* Reading a value of type t; an array knows its length.                   *)
RECURSIVE Decode(_, _), DecodeAll(_, _), DecodeVariant(_, _), DecodePointer(_, _)
Decode(t, s) ==
  CASE t.kind = "int" -> ReadInt(s, t.n)
    [] t.kind = "wide" -> DecodeWide(s)
    [] t.kind = "compact" -> DecodeCompact(s)
    [] t.kind = "flag" -> DecodeFlag(s)
    [] t.kind = "option" ->
         IF Head(s) = 0 THEN Got(<<>>, Tail(s))
         ELSE LET d == Decode(t.of, Tail(s)) IN Got(<<d.v>>, d.rest)
    [] t.kind = "result" ->
         LET i == IF Head(s) = 0 THEN 0 ELSE 1
             d == Decode(t.of[i + 1], Tail(s))
         IN Got(<<i, d.v>>, d.rest)
    [] t.kind = "vector" -> LET d == DecodeCompact(s) IN DecodeAll([i \in 1..d.v |-> t.of], d.rest)
    [] t.kind = "array" -> DecodeAll([i \in 1..t.n |-> t.of], s)
    [] t.kind = "bytes" -> LET d == DecodeCompact(s) IN Take(d.rest, d.v)
    [] t.kind = "fixed" -> Take(s, t.n)
    [] t.kind = "struct" -> DecodeAll(t.of, s)
    [] t.kind = "variant" -> DecodeVariant(t, s)
    [] t.kind = "pointer" -> DecodePointer(t, s)

DecodeAll(ts, s) ==
  IF ts = <<>> THEN Got(<<>>, s)
  ELSE LET first == Decode(Head(ts), s)
           others == DecodeAll(Tail(ts), first.rest)
       IN Got(<<first.v>> \o others.v, others.rest)

DecodeVariant(t, s) == LET d == Decode(t.of[Head(s) + 1], Tail(s)) IN Got(<<Head(s), d.v>>, d.rest)

DecodePointer(t, s) == Decode(t.of, s)

ScaleRead ==
  /\ unread # <<>>
  /\ LET d == Decode(Head(unread).type, stream)
     IN stream' = d.rest /\ read' = <<d.v, Head(unread).v>>
  /\ unread' = Tail(unread)

ScaleNext ==
  \/ \E i \in DOMAIN ScaleValues : Write(ScaleValues[i], Encode(ScaleValues[i].type, ScaleValues[i].v))
  \/ ScaleRead

ScaleSpec == Init /\ [][ScaleNext]_streamVars

(* Every value is read back as it was written (codec/scale.h), and the     *)
(* stream is left at the start of the next one: for compact integers of    *)
(* each form and at the limits between them, the three states of an        *)
(* optional<bool>, and values within values.                               *)
ScaleReadsBack ==
  /\ read # <<>> => read[1] = read[2]
  /\ unread = <<>> => stream = <<>>

-----------------------------------------------------------------------------
(* BCS *)
Group == 2^(ByteBits - 1)

RECURSIVE WriteUleb(_)
WriteUleb(v) == IF v < Group THEN <<v>> ELSE <<(v % Group) + Group>> \o WriteUleb(v \div Group)

RECURSIVE BcsEncode(_, _), BcsEncodeAll(_, _), BcsEncodeVariant(_, _)
BcsEncode(t, v) ==
  CASE t.kind = "int" -> LittleEndian(v, t.n)
    [] t.kind = "wide" -> EncodeWide(v)
    [] t.kind = "varint" -> WriteUleb(v)
    [] t.kind \in {"option", "pointer"} -> IF v = <<>> THEN <<0>> ELSE <<1>> \o BcsEncode(t.of, v[1])
    [] t.kind \in {"vector", "map"} -> WriteUleb(Len(v)) \o BcsEncodeAll([i \in DOMAIN v |-> t.of], v)
    [] t.kind = "array" -> BcsEncodeAll([i \in DOMAIN v |-> t.of], v)
    [] t.kind = "bytes" -> WriteUleb(Len(v)) \o v
    [] t.kind = "fixed" -> v
    [] t.kind = "struct" -> BcsEncodeAll(t.of, v)
    [] t.kind = "variant" -> BcsEncodeVariant(t, v)

BcsEncodeAll(ts, vs) ==
  IF vs = <<>> THEN <<>> ELSE BcsEncode(Head(ts), Head(vs)) \o BcsEncodeAll(Tail(ts), Tail(vs))

BcsEncodeVariant(t, v) == WriteUleb(v[1]) \o BcsEncode(t.of[v[1] + 1], v[2])

RECURSIVE ReadUleb(_)
ReadUleb(s) ==
  IF Head(s) < Group THEN Got(Head(s), Tail(s))
  ELSE LET d == ReadUleb(Tail(s)) IN Got(Head(s) - Group + Group * d.v, d.rest)

(* A new object of type t                                                  *)
RECURSIVE Default(_)
Default(t) ==
  CASE t.kind \in {"int", "wide", "varint"} -> 0
    [] t.kind \in {"option", "pointer", "vector", "map", "bytes"} -> <<>>
    [] t.kind \in {"array", "fixed"} -> [i \in 1..t.n |-> IF t.kind = "array" THEN Default(t.of) ELSE 0]
    [] t.kind = "struct" -> [i \in DOMAIN t.of |-> Default(t.of[i])]
    [] t.kind = "variant" -> <<0, Default(t.of[1])>>

(* resize: the first n elements are kept, new ones are new objects.        *)
Resized(t, held, n) == [i \in 1..n |-> IF i <= Len(held) THEN held[i] ELSE Default(t.of)]

(* What is read where there is no value: an option is reset, a pointer     *)
(* is left as it was.                                                      *)
BcsDecodeAbsent(t, s, held) == Got(IF t.kind = "pointer" THEN held ELSE <<>>, Tail(s))

(* Reading a value of type t into an object that holds held.               *)
RECURSIVE BcsDecode(_, _, _), BcsDecodeAll(_, _, _), BcsDecodeVariant(_, _)
BcsDecode(t, s, held) ==
  CASE t.kind = "int" -> ReadInt(s, t.n)
    [] t.kind = "wide" -> DecodeWide(s)
    [] t.kind = "varint" -> ReadUleb(s)
    [] t.kind \in {"option", "pointer"} ->
         IF Head(s) = 0 THEN BcsDecodeAbsent(t, s, held)
         ELSE LET d == BcsDecode(t.of, Tail(s), Default(t.of)) IN Got(<<d.v>>, d.rest)
    [] t.kind = "vector" ->
         LET d == ReadUleb(s) IN BcsDecodeAll([i \in 1..d.v |-> t.of], d.rest, Resized(t, held, d.v))
    [] t.kind = "map" ->
         LET d == ReadUleb(s) IN BcsDecodeAll([i \in 1..d.v |-> t.of], d.rest, Resized(t, <<>>, d.v))
    [] t.kind = "array" -> BcsDecodeAll([i \in 1..t.n |-> t.of], s, held)
    [] t.kind = "bytes" -> LET d == ReadUleb(s) IN Take(d.rest, d.v)
    [] t.kind = "fixed" -> Take(s, t.n)
    [] t.kind = "struct" -> BcsDecodeAll(t.of, s, held)
    [] t.kind = "variant" -> BcsDecodeVariant(t, s)

BcsDecodeAll(ts, s, held) ==
  IF ts = <<>> THEN Got(<<>>, s)
  ELSE LET first == BcsDecode(Head(ts), s, Head(held))
           others == BcsDecodeAll(Tail(ts), first.rest, Tail(held))
       IN Got(<<first.v>> \o others.v, others.rest)

BcsDecodeVariant(t, s) ==
  LET i == ReadUleb(s)
      d == BcsDecode(t.of[i.v + 1], i.rest, Default(t.of[i.v + 1]))
  IN Got(<<i.v, d.v>>, d.rest)

-----------------------------------------------------------------------------
BcsRead(held) ==
  /\ unread # <<>>
  /\ LET d == BcsDecode(Head(unread).type, stream, held)
     IN /\ stream' = d.rest
        /\ read' = [got |-> d.v, written |-> Head(unread).v, type |-> Head(unread).type, held |-> held]
  /\ unread' = Tail(unread)

(* What an object that is read into may hold.                              *)
HeldBefore(t) == {Default(t)} \cup {BcsValues[i].v : i \in {j \in DOMAIN BcsValues : BcsValues[j].type = t}}

BcsNext ==
  \/ \E i \in DOMAIN BcsValues : Write(BcsValues[i], BcsEncode(BcsValues[i].type, BcsValues[i].v))
  \/ unread # <<>> /\ \E held \in HeldBefore(Head(unread).type) : BcsRead(held)

BcsSpec == Init /\ [][BcsNext]_streamVars

-----------------------------------------------------------------------------
RECURSIVE HasPointer(_)
HasPointer(t) ==
  CASE t.kind = "pointer" -> TRUE
    [] t.kind \in {"vector", "array"} -> HasPointer(t.of)
    [] t.kind = "struct" -> \E i \in DOMAIN t.of : HasPointer(t.of[i])
    [] OTHER -> FALSE

(* Every value is read back as it was written (codec/bcs.h), whatever the  *)
(* object that is read into held, and the stream is left at the start of   *)
(* the next one; into an object that holds pointers, if the object is new. *)
BcsReadsBack ==
  /\ read # <<>> =>
       \/ read.got = read.written
       \/ HasPointer(read.type) /\ read.held # Default(read.type)
  /\ unread = <<>> => stream = <<>>

-----------------------------------------------------------------------------
(* RLP *)
(* The bytes of a number, the highest first, without leading zeros: what   *)
(* reverse_write makes of the trimmed span.                                *)
RECURSIVE RlpTrimmed(_)
RlpTrimmed(n) == IF n = 0 THEN <<>> ELSE Append(RlpTrimmed(n \div Base), n % Base)

RECURSIVE RlpNumber(_)
RlpNumber(s) == IF s = <<>> THEN 0 ELSE RlpNumber(SubSeq(s, 1, Len(s) - 1)) * Base + s[Len(s)]

(* encode_bytes *)
EncodeInt(n) ==
  LET s == RlpTrimmed(n)
  IN IF Len(s) = 1 /\ n < Single THEN s ELSE <<Len(s) + Single>> \o s

(* encode_prefix *)
EncodePrefix(n, mod) ==
  IF n <= ShortMax THEN <<n + mod>>
  ELSE <<Len(RlpTrimmed(n)) + mod + ShortMax>> \o RlpTrimmed(n)

(* A byte sequence or a string                                             *)
EncodeBytes(s) == IF Len(s) = 1 /\ s[1] < Single THEN s ELSE EncodePrefix(Len(s), Single) \o s

EncodeString(s) == EncodeBytes(s)

RlpEncodeWide(n) == EncodeInt(n)

(* Variant: the prefix counts the elements, not their bytes.               *)
EncodeListCounted(count, payload) == EncodePrefix(count, ListMod) \o payload

(* A span of values: the size of the payload, and the payload              *)
EncodeList(count, payload) == EncodePrefix(Len(payload), ListMod) \o payload

EncodeStruct(count, payload) == EncodeList(count, payload)

RECURSIVE RlpEncode(_), RlpEncodeAll(_)
RlpEncode(value) ==
  CASE value.type = "int" -> EncodeInt(value.v)
    [] value.type = "wide" -> RlpEncodeWide(value.v)
    [] value.type \in {"bytes", "fixed"} -> EncodeBytes(value.v)
    [] value.type = "string" -> EncodeString(value.v)
    [] value.type \in {"span", "vector"} -> EncodeList(Len(value.v), RlpEncodeAll(value.v))
    [] value.type = "struct" -> EncodeStruct(Len(value.v), RlpEncodeAll(value.v))

RlpEncodeAll(values) == IF values = <<>> THEN <<>> ELSE RlpEncode(Head(values)) \o RlpEncodeAll(Tail(values))

From(s, n) == SubSeq(s, n + 1, Len(s))

(* decode_prefix: the length, and what follows the prefix                  *)
DecodePrefix(s, mod) ==
  LET size == s[1] - mod
      long == size - ShortMax
  IN IF size <= ShortMax THEN [size |-> size, rest |-> Tail(s)]
     ELSE [size |-> RlpNumber(SubSeq(s, 2, long + 1)), rest |-> From(s, long + 1)]

Refused == [ok |-> FALSE, value |-> 0, rest |-> <<>>]
Taken(value, rest) == [ok |-> TRUE, value |-> value, rest |-> rest]

(* decode_bytes *)
DecodeNumber(s) ==
  IF s[1] < Single THEN Taken(s[1], Tail(s))
  ELSE LET size == s[1] - Single IN Taken(RlpNumber(SubSeq(s, 2, size + 1)), From(s, size + 1))

DecodeInt(s) == IF s[1] <= Single + IntBytes THEN DecodeNumber(s) ELSE Refused

RlpDecodeWide(s) == DecodeNumber(s)

DecodeBytes(s) ==
  IF s[1] < Single THEN Taken(<<s[1]>>, Tail(s))
  ELSE IF s[1] < ListMod
  THEN LET p == DecodePrefix(s, Single) IN Taken(SubSeq(p.rest, 1, p.size), From(p.rest, p.size))
  ELSE Refused

DecodeString(s) == DecodeBytes(s)

(* A byte sequence of a length the reader knows                            *)
DecodeFixed(s, size) ==
  LET d == DecodeBytes(s) IN IF d.ok /\ Len(d.value) = size THEN d ELSE Refused

(* Reading by type: like is a value of the type that is read.  Spans and   *)
(* vectors are read until their bytes are used up (the unsigned size is 0: *)
(* beyond it the loop goes on), structs field by field.                    *)
RECURSIVE RlpDecode(_, _), DecodeList(_, _, _), DecodeStruct(_, _)
RlpDecode(s, like) ==
  LET p == DecodePrefix(s, ListMod)
      d == CASE like.type = "int" -> DecodeInt(s)
             [] like.type = "wide" -> RlpDecodeWide(s)
             [] like.type = "bytes" -> DecodeBytes(s)
             [] like.type = "fixed" -> DecodeFixed(s, Len(like.v))
             [] like.type = "string" -> DecodeString(s)
             [] like.type \in {"span", "vector"} ->
                  IF s[1] < ListMod THEN Refused ELSE DecodeList(p.rest, p.size, like.v)
             [] like.type = "struct" ->
                  IF s[1] < ListMod THEN Refused ELSE DecodeStruct(p.rest, like.v)
  IN [d EXCEPT !.value = [type |-> like.type, v |-> d.value]]

DecodeList(s, size, likes) ==
  IF size = 0 THEN Taken(<<>>, s)
  ELSE IF likes = <<>> THEN Refused
  ELSE LET first == RlpDecode(s, Head(likes))
           others == DecodeList(first.rest, size - (Len(s) - Len(first.rest)), Tail(likes))
       IN IF first.ok /\ others.ok THEN Taken(<<first.value>> \o others.value, others.rest) ELSE Refused

DecodeStruct(s, likes) ==
  IF likes = <<>> THEN Taken(<<>>, s)
  ELSE LET first == RlpDecode(s, Head(likes))
           others == DecodeStruct(first.rest, Tail(likes))
       IN IF first.ok /\ others.ok THEN Taken(<<first.value>> \o others.value, others.rest) ELSE Refused

RlpRead ==
  /\ unread # <<>>
  /\ LET d == RlpDecode(stream, Head(unread))
     IN stream' = d.rest /\ read' = <<d.ok, d.value, Head(unread)>>
  /\ unread' = Tail(unread)

RlpNext ==
  \/ \E i \in DOMAIN RlpValues : Write(RlpValues[i], RlpEncode(RlpValues[i]))
  \/ RlpRead

RlpSpec == Init /\ [][RlpNext]_streamVars

(* Every value is read back as it was written (codec/rlp.h), and the       *)
(* stream is left at the start of the next one: for integers that do and   *)
(* do not need a prefix, lengths on both sides of ShortMax, and lists      *)
(* within lists.                                                           *)
RlpReadsBack ==
  /\ read # <<>> => read[1] /\ read[2] = read[3]
  /\ unread = <<>> => stream = <<>>
==============================================================================
