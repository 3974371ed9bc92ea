------------------------------- MODULE BitArray -------------------------------
(***************************************************************************)
(* bit_array (consensus/bit_array.h): the operations on two arrays that    *)
(* the reactors use, and the two encodings, of bytes and of 64-bit words.  *)
(* A byte is ByteBits bits and a word is WordBytes bytes; a bit past the   *)
(* end of elem is whatever memory holds.                                   *)
(***************************************************************************)
EXTENDS Integers, Sequences, Functions

CONSTANTS ByteBits, WordBytes,
          MaxBits                \* bound: size of an array

VARIABLES x, y                   \* two arrays

bitVars == <<x, y>>

NewBitArray(n) == [bits |-> n, elem |-> [i \in 1..n |-> FALSE]]

TrueIndices(a) == {i \in 0..Len(a.elem) - 1 : a.elem[i + 1]}

GetIndex(a, i) == i < a.bits /\ a.elem[i + 1]

SetIndex(a, i, v) == IF i >= a.bits THEN a ELSE [a EXCEPT !.elem[i + 1] = v]

(* copy_bits: n bits of elem, whatever follows them                        *)
CopyBits(a, n) ==
  {[bits |-> n, elem |-> e] : e \in {f \in [1..n -> BOOLEAN] :
     \A i \in 1..n : i <= Len(a.elem) => f[i] = a.elem[i]}}

Shorter(a, b) == IF Len(a.elem) < Len(b.elem) THEN Len(a.elem) ELSE Len(b.elem)

(* Variant: bits past the shorter array are dropped.                       *)
SubShort(a, b) ==
  {[c EXCEPT !.elem = [i \in DOMAIN c.elem |-> i <= Shorter(a, b) /\ c.elem[i] /\ ~b.elem[i]]] : c \in CopyBits(a, a.bits)}

Sub(a, b) ==
  {[c EXCEPT !.elem = [i \in DOMAIN c.elem |-> c.elem[i] /\ (i <= Shorter(a, b) => ~b.elem[i])]] : c \in CopyBits(a, a.bits)}

OrOp(a, b) ==
  {[c EXCEPT !.elem = [i \in DOMAIN c.elem |-> c.elem[i] \/ (i <= Shorter(a, b) /\ b.elem[i])]] :
     c \in CopyBits(a, IF a.bits < b.bits THEN b.bits ELSE a.bits)}

NotOp(a) == [a EXCEPT !.elem = [i \in DOMAIN @ |-> ~@[i]]]

(* pick_random: <<0, FALSE>> or one of the true indices                    *)
PickRandom(a) ==
  IF TrueIndices(a) = {} THEN {<<0, FALSE>>} ELSE TrueIndices(a) \X {TRUE}

-----------------------------------------------------------------------------
(* Encodings *)

Total(s) == FoldFunction(LAMBDA m, n : m + n, 0, s)

BitOf(word, j) == (word \div 2^j) % 2 = 1

GetBytes(a) ==
  [k \in 1..(a.bits + ByteBits - 1) \div ByteBits |->
    Total([j \in 1..ByteBits |->
      LET i == (k - 1) * ByteBits + j IN IF i <= a.bits /\ a.elem[i] THEN 2^(j - 1) ELSE 0])]

(* set_index of every bit of every unit, those past bits being refused.    *)
Unpacked(n, units, width) ==
  [bits |-> n, elem |-> [i \in 1..n |->
     (i - 1) \div width < Len(units) /\ BitOf(units[(i - 1) \div width + 1], (i - 1) % width)]]

(* operator<< and operator>>                                               *)
Encoded(a) == [bits |-> a.bits, bytes |-> GetBytes(a)]

Decoded(e) == Unpacked(e.bits, e.bytes, ByteBits)

NumElems(n) == (n + ByteBits * WordBytes - 1) \div (ByteBits * WordBytes)

ToProto(a) ==
  LET bz == GetBytes(a)
  IN [bits |-> a.bits, elems |-> [k \in 1..NumElems(a.bits) |->
       Total([i \in 1..WordBytes |->
         LET n == (k - 1) * WordBytes + i IN IF n <= Len(bz) THEN bz[n] * 2^((i - 1) * ByteBits) ELSE 0])]]

FromProto(pb) == Unpacked(pb.bits, pb.elems, ByteBits * WordBytes)

-----------------------------------------------------------------------------
BitInit == \E n, m \in 0..MaxBits : x = NewBitArray(n) /\ y = NewBitArray(m)

Set(i, v) ==
  \/ x' = SetIndex(x, i, v) /\ UNCHANGED y
  \/ y' = SetIndex(y, i, v) /\ UNCHANGED x

Invert == x' = NotOp(x) /\ UNCHANGED y

Subtract == x' \in Sub(x, y) /\ UNCHANGED y

Reload ==
  \/ x' = Decoded(Encoded(x)) /\ UNCHANGED y
  \/ x' = FromProto(ToProto(x)) /\ UNCHANGED y

BitNext == (\E i \in 0..MaxBits, v \in BOOLEAN : Set(i, v)) \/ Invert \/ Subtract \/ Reload

BitSpec == BitInit /\ [][BitNext]_bitVars

-----------------------------------------------------------------------------
(* What is picked from one array less another is an index that the first   *)
(* has and the second has not, and one is picked if there is one, whatever *)
(* the two sizes (gossip_data_routine and pick_vote_to_send rely on it).   *)
PicksAMissingOne ==
  \A c \in Sub(x, y) : \A p \in PickRandom(c) :
    LET missing == {i \in TrueIndices(x) : ~GetIndex(y, i)}
    IN IF p[2] THEN p[1] \in missing ELSE missing = {}

(* Both encodings, of bytes and of words, give the array back, for sizes   *)
(* that do and do not fill the last byte and the last word.                *)
EncodingsAreInverse ==
  \A a \in {x, y} : Decoded(Encoded(a)) = a /\ FromProto(ToProto(a)) = a

(* or_op is the union for a first array that is not the shorter one; it    *)
(* then reads no bit past the end.                                         *)
OrIsUnionIfLonger ==
  x.bits >= y.bits => \A c \in OrOp(x, y) : TrueIndices(c) = TrueIndices(x) \cup TrueIndices(y)
==============================================================================
