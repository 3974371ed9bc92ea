-------------------------------- MODULE PartSet --------------------------------
(***************************************************************************)
(* part_set (consensus/types/block.h, block.cpp): a block cut into parts   *)
(* with a Merkle proof each, and put together from parts that come in any  *)
(* order, more than once, and also from another block.                     *)
(***************************************************************************)
EXTENDS Integers, Sequences, FiniteSets

-----------------------------------------------------------------------------
(***************************************************************************)
(* The Merkle tree of lists of byte strings and its inclusion proofs       *)
(* (consensus/merkle/tree.cpp, proof.h, proof.cpp).  A hash is the term    *)
(* that is hashed: hashes are equal only if what they are of is.           *)
(***************************************************************************)
EmptyHash == <<"empty">>
LeafHash(leaf) == <<"leaf", leaf>>
InnerHash(left, right) == <<"inner", left, right>>

(* The empty result of compute_hash_from_aunts                             *)
NoHash == <<>>

(* get_split_point: the largest power of two below the length              *)
SplitPoint(n) == CHOOSE k \in {2^b : b \in 0..n} : k < n /\ n <= 2 * k

Lefts(items) == SubSeq(items, 1, SplitPoint(Len(items)))
Rights(items) == SubSeq(items, SplitPoint(Len(items)) + 1, Len(items))

RECURSIVE HashFromBytesList(_)
HashFromBytesList(items) ==
  IF items = <<>> THEN EmptyHash
  ELSE IF Len(items) = 1 THEN LeafHash(items[1])
  ELSE InnerHash(HashFromBytesList(Lefts(items)), HashFromBytesList(Rights(items)))

(* trails_from_bytes_list: the root, and the aunts of each leaf as         *)
(* flatten_aunts lists them, from the leaf to the root.                    *)
RECURSIVE Trails(_)
Trails(items) ==
  IF items = <<>> THEN [root |-> EmptyHash, aunts |-> <<>>]
  ELSE IF Len(items) = 1 THEN [root |-> LeafHash(items[1]), aunts |-> << <<>> >>]
  ELSE LET left == Trails(Lefts(items))
           right == Trails(Rights(items))
       IN [root |-> InnerHash(left.root, right.root),
           aunts |-> [i \in 1..Len(left.aunts) |-> Append(left.aunts[i], right.root)]
                  \o [i \in 1..Len(right.aunts) |-> Append(right.aunts[i], left.root)]]

(* proofs_from_bytes_list; the index counts from 0                         *)
ProofsFromBytesList(items) ==
  [i \in 1..Len(items) |->
    [total |-> Len(items), index |-> i - 1, leaf_hash |-> LeafHash(items[i]), aunts |-> Trails(items).aunts[i]]]

(* compute_hash_from_aunts *)
RECURSIVE HashFromAunts(_, _, _, _)
HashFromAunts(index, total, leaf, aunts) ==
  IF index >= total \/ index < 0 \/ total <= 0 THEN NoHash
  ELSE IF total = 1 THEN IF aunts # <<>> THEN NoHash ELSE leaf
  ELSE IF aunts = <<>> THEN NoHash
  ELSE LET k == SplitPoint(total)
           rest == SubSeq(aunts, 1, Len(aunts) - 1)
           last == aunts[Len(aunts)]
           below == IF index < k THEN HashFromAunts(index, k, leaf, rest)
                    ELSE HashFromAunts(index - k, total - k, leaf, rest)
       IN IF below = NoHash THEN NoHash
          ELSE IF index < k THEN InnerHash(below, last) ELSE InnerHash(last, below)

(* proof::verify *)
Verify(proof, root, leaf) ==
  /\ proof.total >= 0 /\ proof.index >= 0
  /\ LeafHash(leaf) = proof.leaf_hash
  /\ HashFromAunts(proof.index, proof.total, proof.leaf_hash, proof.aunts) = root

-----------------------------------------------------------------------------
CONSTANTS PartBytes,             \* values of a byte
          PartSize,              \* block_part_size_bytes
          MaxSize,               \* bound: bytes of a block
          NoPart

VARIABLES wanted,                \* the data of the block that the header is of
          other,                 \* the data of another block
          set                    \* the part_set that is being filled

partVars == <<wanted, other, set>>

Least(a, b) == IF a < b THEN a ELSE b


Total(data) == (Len(data) + PartSize - 1) \div PartSize

PartsBytes(data) ==
  [i \in 1..Total(data) |-> SubSeq(data, (i - 1) * PartSize + 1, Least(Len(data), i * PartSize))]

(* The parts that new_part_set_from_data makes, and the header             *)
PartsOf(data) ==
  LET bytes == PartsBytes(data)
      proofs == ProofsFromBytesList(bytes)
  IN [i \in 1..Total(data) |-> [index |-> i - 1, bytes |-> bytes[i], proof |-> proofs[i]]]

Header(data) == [total |-> Total(data), hash |-> Trails(PartsBytes(data)).root]

NewPartSetFromHeader(header) ==
  [total |-> header.total, hash |-> header.hash, parts |-> [i \in 1..header.total |-> NoPart],
   bits |-> {}, count |-> 0, byte_size |-> 0]

AddPart(s, part) ==
  IF part.index >= s.total THEN s
  ELSE IF s.parts[part.index + 1] # NoPart THEN s
  ELSE IF ~Verify(part.proof, s.hash, part.bytes) THEN s
  ELSE [s EXCEPT !.parts[part.index + 1] = part, !.bits = @ \cup {part.index},
                 !.count = @ + 1, !.byte_size = @ + Len(part.bytes)]

IsComplete(s) == s.count = s.total

Blocks == UNION {[1..n -> PartBytes] : n \in 1..MaxSize}

PartInit ==
  /\ wanted \in Blocks /\ other \in Blocks
  /\ set = NewPartSetFromHeader(Header(wanted))

Receive ==
  /\ \E data \in {wanted, other} : \E i \in 1..Total(data) : set' = AddPart(set, PartsOf(data)[i])
  /\ UNCHANGED <<wanted, other>>

PartNext == Receive

PartSpec == PartInit /\ [][PartNext]_partVars

-----------------------------------------------------------------------------
RECURSIVE Joined(_, _)
Joined(s, n) == IF n = 0 THEN <<>> ELSE Joined(s, n - 1) \o s.parts[n].bytes


(* The counters, the bits that are gossiped and the parts agree, so that   *)
(* count reaches total exactly when no part is missing.                    *)
CountsAreRight ==
  /\ set.bits = {i \in 0..set.total - 1 : set.parts[i + 1] # NoPart}
  /\ set.count = Cardinality(set.bits)
  /\ IsComplete(set) => set.byte_size = Len(wanted)

(* The proofs of a block verify against its header and the same leaf only, *)
(* and their root is that of the list: a correct node's part is always     *)
(* taken, one of another block with other bytes in that place never is.    *)
ProofsAreExact ==
  LET bytes == PartsBytes(wanted)
      proofs == ProofsFromBytesList(bytes)
      root == Header(wanted).hash
  IN /\ root = HashFromBytesList(bytes)
     /\ \A i, j \in DOMAIN bytes : Verify(proofs[i], root, bytes[j]) <=> bytes[i] = bytes[j]
     /\ \A i \in 1..Total(other) :
          LET part == PartsOf(other)[i]
          IN Verify(part.proof, root, part.bytes) => i \in DOMAIN bytes /\ part.bytes = bytes[i]
==============================================================================
