----------------------------- MODULE JellyfishTree -----------------------------
(***************************************************************************)
(* The Jellyfish Merkle tree (jmt/jmt.h): a versioned key-value tree whose *)
(* nodes are written once, under the version that made them and the path   *)
(* that leads to them.  An update writes new nodes from the root down and  *)
(* lists the nodes they replace as stale; stale nodes are purged later.    *)
(* Values are put one at a time (put_value_sets) or a sorted batch at a    *)
(* time (batch_put_value_sets); get_with_proof reads a value with its      *)
(* proof.  The store is that of jmt/mock_tree_store.h.                     *)
(*                                                                         *)
(* A call is one step: the tree has one writer, and a version is read only *)
(* when its batch has been written.  A failed check() or error result sets *)
(* ok in the cache.  The hashes a caller may hand to batch_put_value_sets  *)
(* are left out, and so are the node statistics.                           *)
(***************************************************************************)
EXTENDS Integers, FiniteSets, SequencesExt

-----------------------------------------------------------------------------
(***************************************************************************)
(* The nodes of the Jellyfish Merkle tree and its proofs (jmt/types).  A   *)
(* key is the sequence of its nibbles; the width of a nibble (4 bits in    *)
(* the code) and the number of nibbles of a key (64) are parameters.       *)
(* Hashes are terms: two are equal only if they hash the same thing, and   *)
(* the hash of a value is the value.                                       *)
(***************************************************************************)
CONSTANTS
  NibbleBits,            \* bits of a nibble
  Height,                \* root_nibble_height
  NoValue                \* std::nullopt for a value

Arity == 2^NibbleBits
KeyBits == NibbleBits * Height

(* node_key: the version that wrote the node and the path that leads to it *)
NodeKey(version, path) == [version |-> version, path |-> path]

GenChildNodeKey(key, version, n) == NodeKey(version, Append(key.path, n))

Placeholder == <<>>
LeafHash(key, value) == <<"leaf", key, value>>
PairHash(left, right) == <<"pair", left, right>>

Null == [type |-> "null"]
Leaf(key, value) == [type |-> "leaf", key |-> key, value |-> value]

(* internal_node(children): a function from nibbles to children.           *)
SumLeafCount(children) == MapThenSumSet(LAMBDA n : children[n].leaves, DOMAIN children)

Internal(children) == [type |-> "internal", children |-> children, leaves |-> SumLeafCount(children)]

(* The checks of internal_node's constructor.                              *)
ChildrenOK(children) ==
  /\ DOMAIN children # {}
  /\ Cardinality(DOMAIN children) = 1 => \A n \in DOMAIN children : ~children[n].leaf

LeafCount(node) ==
  CASE node.type = "null" -> 0 [] node.type = "leaf" -> 1 [] node.type = "internal" -> node.leaves

(* range_bitmaps: the children from start on, width of them.               *)
InRange(children, start, width) == {n \in DOMAIN children : start <= n /\ n < start + width}

(* Variant: the one child may be an internal node.                         *)
LoneChild(children, range) == Cardinality(range) = 1

(* The range holds one leaf and nothing else.                              *)
LoneLeaf(children, range) == Cardinality(range) = 1 /\ \A n \in range : children[n].leaf

Only(S) == CHOOSE n \in S : TRUE

RECURSIVE MerkleHash(_, _, _)
MerkleHash(children, start, width) ==
  LET range == InRange(children, start, width)
      half == width \div 2
  IN IF range = {} THEN Placeholder
     ELSE IF width = 1 \/ LoneLeaf(children, range) THEN children[Only(range)].hash
     ELSE PairHash(MerkleHash(children, start, half), MerkleHash(children, start + half, half))

Hash(node) ==
  CASE node.type = "null" -> Placeholder
    [] node.type = "leaf" -> LeafHash(node.key, node.value)
    [] node.type = "internal" -> MerkleHash(node.children, 0, Arity)

(* The entry of a node in its parent's children.                           *)
Child(node, version) ==
  [hash |-> Hash(node), version |-> version, leaf |-> node.type = "leaf", leaves |-> LeafCount(node)]

-----------------------------------------------------------------------------
(* get_child_with_siblings *)

ChildHalfStart(n, h) == (n \div 2^h) * 2^h

SiblingHalfStart(n, h) == IF (n \div 2^h) % 2 = 0 THEN ChildHalfStart(n, h) + 2^h ELSE ChildHalfStart(n, h) - 2^h

(* Halve the range around n until its half is empty, or holds one leaf, or *)
(* is n itself; the hash of the other half is a sibling.                   *)
RECURSIVE ChildWithSiblings(_, _, _, _)
ChildWithSiblings(children, n, h, siblings) ==
  LET found == Append(siblings, MerkleHash(children, SiblingHalfStart(n, h), 2^h))
      range == InRange(children, ChildHalfStart(n, h), 2^h)
  IN IF range = {} THEN [child |-> {}, siblings |-> found]
     ELSE IF h = 0 \/ LoneLeaf(children, range) THEN [child |-> range, siblings |-> found]
     ELSE ChildWithSiblings(children, n, h - 1, found)

GetChildWithSiblings(node, n) == ChildWithSiblings(node.children, n, NibbleBits - 1, <<>>)

-----------------------------------------------------------------------------
(* sparse_merkle_proof: the leaf that was met, if any, and the siblings    *)
(* from the leaf up.                                                       *)

NoLeaf == [key |-> <<>>, value |-> NoValue]

Proof(leaf, siblings) == [leaf |-> leaf, siblings |-> Reverse(siblings)]

(* The bit of the key that to_bitset() has at place i: the last bit of the *)
(* key comes first.                                                        *)
Bit(key, i) == (key[Height - i \div NibbleBits] \div 2^(i % NibbleBits)) % 2

(* common_prefix_bits_len: the places from the last bit of the keys on     *)
(* where the two differ.                                                   *)
CommonPrefixBitsLen(a, b) ==
  Min({i \in 0..KeyBits - 1 : Bit(a, i) = Bit(b, i)} \cup {KeyBits})

(* The root hash that a proof leads to.                                    *)
RootOf(hash, key, siblings) ==
  FoldLeftDomain(LAMBDA h, i : IF Bit(key, KeyBits - Len(siblings) + i - 1) = 1
                               THEN PairHash(siblings[i], h) ELSE PairHash(h, siblings[i]), hash, siblings)

(* What verify asks of the leaf, for a key that is present and for one     *)
(* that is not.                                                            *)
ProvesValue(leaf, key, value) == leaf # NoLeaf /\ leaf.key = key /\ leaf.value = value

ProvesAbsence(leaf, key, siblings) ==
  leaf # NoLeaf => leaf.key # key /\ CommonPrefixBitsLen(key, leaf.key) >= Len(siblings)

Verify(proof, root, key, value) ==
  /\ IF value # NoValue THEN ProvesValue(proof.leaf, key, value)
     ELSE ProvesAbsence(proof.leaf, key, proof.siblings)
  /\ root = RootOf(IF proof.leaf = NoLeaf THEN Placeholder ELSE LeafHash(proof.leaf.key, proof.leaf.value),
                   key, proof.siblings)

-----------------------------------------------------------------------------
CONSTANTS
  TreeKeys,              \* the keys that are put and read
  TreeValues,
  MaxVersion,            \* bound: the last version
  MaxSets,               \* bound: versions written by one call
  MaxPairs,              \* bound: pairs in a value set
  MaxPurges              \* bound: calls of purge_stale_nodes

VARIABLES
  nodes,                 \* data._0 of the store: nodes by node key
  stale,                 \* data._1 of the store: the stale node index
  roots,                 \* the root hash each version was given
  contents,              \* history: the map that each version holds
  least,                 \* the least readable version
  purges,                \* how often the store was purged
  ok                     \* no check failed, no call returned an error

treeVars == <<nodes, stale, roots, contents, least, purges, ok>>

PreGenesisVersion == MaxVersion + 1
NoNodes == [k \in {} |-> Null]

-----------------------------------------------------------------------------
(* tree_cache *)

(* The cache of a call whose first version is next.                        *)
TreeCache(next) ==
  LET preGenesis == NodeKey(PreGenesisVersion, <<>>)
      genesis == NodeKey(0, <<>>)
      empty == [nodes |-> NoNodes, stale |-> {}, frozen |-> NoNodes, frozenStale |-> {},
                hashes |-> <<>>, next |-> next, ok |-> TRUE]
  IN IF next > 0 THEN [root |-> NodeKey(next - 1, <<>>)] @@ empty
     ELSE IF preGenesis \in DOMAIN nodes THEN [root |-> preGenesis] @@ empty
     ELSE [root |-> genesis, nodes |-> genesis :> Null] @@ empty

(* get_node: an error if there is no such node.                            *)
HasNode(c, key) == key \in DOMAIN c.nodes \cup DOMAIN c.frozen \cup DOMAIN nodes
GetNode(c, key) == (c.nodes @@ c.frozen @@ nodes)[key]

Error(c) == [c EXCEPT !.ok = FALSE]

PutNode(c, key, node) ==
  IF key \in DOMAIN c.nodes THEN Error(c) ELSE [c EXCEPT !.nodes = @ @@ (key :> node)]

(* delete_node: a node of this version is dropped, any other becomes stale *)
DeleteNode(c, key) ==
  IF key \in DOMAIN c.nodes THEN [c EXCEPT !.nodes = [k \in DOMAIN @ \ {key} |-> @[k]]]
  ELSE IF key \in c.stale THEN Error(c)
  ELSE [c EXCEPT !.stale = @ \cup {key}]

(* freeze: the version is complete.                                        *)
Freeze(c) ==
  IF ~HasNode(c, c.root) THEN Error(c)
  ELSE [c EXCEPT !.hashes = Append(@, Hash(GetNode(c, c.root))),
                 !.frozen = @ @@ c.nodes,
                 !.nodes = NoNodes,
                 !.frozenStale = @ \cup {[since |-> c.next, key |-> k] : k \in c.stale},
                 !.stale = {},
                 !.next = @ + 1]

(* What an insertion returns: the cache, the node and its key.             *)
Made(c, key, node) == [cache |-> c, key |-> key, node |-> node]

Failed(c, key) == Made(Error(c), key, Null)

MakeLeaf(c, key, k, value) == Made(PutNode(c, key, Leaf(k, value)), key, Leaf(k, value))

(* internal_node(children), put under key.                                 *)
MakeInternal(c, key, children) ==
  IF ~ChildrenOK(children) THEN Failed(c, key)
  ELSE Made(PutNode(c, key, Internal(children)), key, Internal(children))

SetChild(children, n, node, version) == (n :> Child(node, version)) @@ children

-----------------------------------------------------------------------------
(* A sorted batch: kvs is a sequence of pairs <<key, value>>. *)

(* nibble_range_iterator::next, a binary search for the last pair with the *)
(* nibble n.                                                               *)
RECURSIVE RangeEnd(_, _, _, _, _)
RangeEnd(kvs, depth, n, i, j) ==
  LET mid == j - (j - i) \div 2
  IN IF i >= j THEN i
     ELSE IF kvs[mid][1][depth + 1] > n THEN RangeEnd(kvs, depth, n, i, mid - 1)
     ELSE RangeEnd(kvs, depth, n, mid, j)

(* The subspans of the pairs that share the nibble at depth, in order.     *)
RECURSIVE Spans(_, _, _)
Spans(kvs, depth, left) ==
  IF left > Len(kvs) THEN <<>>
  ELSE LET right == RangeEnd(kvs, depth, kvs[left][1][depth + 1], left, Len(kvs))
       IN <<SubSeq(kvs, left, right)>> \o Spans(kvs, depth, right + 1)

NibbleOf(span, depth) == span[1][1][depth + 1]

RECURSIVE BatchCreateSubtree(_, _, _, _, _)
BatchCreateSubtree(c, key, version, kvs, depth) ==
  LET Grow(acc, span) ==
        LET n == NibbleOf(span, depth)
            made == BatchCreateSubtree(acc.cache, GenChildNodeKey(key, version, n), version, span, depth + 1)
        IN [cache |-> made.cache, children |-> SetChild(acc.children, n, made.node, version)]
      grown == FoldLeft(Grow, [cache |-> c, children |-> <<>>], Spans(kvs, depth, 1))
  IN IF Len(kvs) = 1 THEN MakeLeaf(c, key, kvs[1][1], kvs[1][2])
     ELSE MakeInternal(grown.cache, key, grown.children)

(* The leaf that stands in the way goes down with the pairs of its bucket, *)
(* or becomes a child of its own.                                          *)
RECURSIVE BatchCreateSubtreeWithExistingLeaf(_, _, _, _, _, _)
BatchCreateSubtreeWithExistingLeaf(c, key, version, leaf, kvs, depth) ==
  LET bucket == leaf.key[depth + 1]
      spans == Spans(kvs, depth, 1)
      Grow(acc, span) ==
        LET n == NibbleOf(span, depth)
            child == GenChildNodeKey(key, version, n)
            made == IF n = bucket
                    THEN BatchCreateSubtreeWithExistingLeaf(acc.cache, child, version, leaf, span, depth + 1)
                    ELSE BatchCreateSubtree(acc.cache, child, version, span, depth + 1)
        IN [cache |-> made.cache, children |-> SetChild(acc.children, n, made.node, version)]
      grown == FoldLeft(Grow, [cache |-> c, children |-> <<>>], spans)
      isolated == \A i \in DOMAIN spans : NibbleOf(spans[i], depth) # bucket
  IN IF Len(kvs) = 1 /\ kvs[1][1] = leaf.key THEN MakeLeaf(c, key, leaf.key, kvs[1][2])
     ELSE IF isolated
     THEN MakeInternal(PutNode(grown.cache, GenChildNodeKey(key, version, bucket), leaf), key,
                       SetChild(grown.children, bucket, leaf, version))
     ELSE MakeInternal(grown.cache, key, grown.children)

RECURSIVE BatchInsertAt(_, _, _, _, _)
BatchInsertAt(c, key, version, kvs, depth) ==
  LET node == GetNode(c, key)
      here == NodeKey(version, key.path)
      Grow(acc, span) ==
        LET n == NibbleOf(span, depth)
            made == IF n \in DOMAIN node.children
                    THEN BatchInsertAt(acc.cache, GenChildNodeKey(key, node.children[n].version, n),
                                       version, span, depth + 1)
                    ELSE BatchCreateSubtree(acc.cache, GenChildNodeKey(key, version, n), version, span, depth + 1)
        IN [cache |-> made.cache, children |-> SetChild(acc.children, n, made.node, version)]
      grown == FoldLeft(Grow, [cache |-> DeleteNode(c, key), children |-> node.children], Spans(kvs, depth, 1))
  IN CASE ~HasNode(c, key) -> Failed(c, key)
       [] HasNode(c, key) /\ node.type = "internal" -> MakeInternal(grown.cache, here, grown.children)
       [] HasNode(c, key) /\ node.type = "leaf" ->
            BatchCreateSubtreeWithExistingLeaf(DeleteNode(c, key), here, version, node, kvs, depth)
       [] HasNode(c, key) /\ node.type = "null" ->
            IF key.path # <<>> THEN Failed(c, key)
            ELSE BatchCreateSubtree(IF key.version = version THEN DeleteNode(c, key) ELSE c,
                                    NodeKey(version, <<>>), version, kvs, depth)

-----------------------------------------------------------------------------
(* One value at a time: visited nibbles of key k have led to this node. *)

Prefix(k, n) == SubSeq(k, 1, n)

(* skip_common_prefix of what is left of both keys.                        *)
CommonBelow(a, b, visited) ==
  Max({n \in 0..Height - visited : SubSeq(a, visited + 1, visited + n) = SubSeq(b, visited + 1, visited + n)})

(* insert_at_leaf_node: the leaf and the new one become children of a node *)
(* where their keys part, and a chain of nodes with one child leads there. *)
RECURSIVE ChainUp(_, _, _)
ChainUp(made, version, n) ==
  IF n = 0 THEN made
  ELSE LET key == NodeKey(version, Front(made.key.path))
           children == Last(made.key.path) :> Child(made.node, version)
       IN ChainUp(MakeInternal(made.cache, key, children), version, n - 1)

InsertAtLeafNode(c, key, leaf, version, k, value, visited) ==
  LET common == CommonBelow(k, leaf.key, visited)
      depth == visited + common
      parting == NodeKey(version, Prefix(k, depth))
      old == leaf.key[depth + 1]
      new == k[depth + 1]
      withOld == PutNode(DeleteNode(c, key), GenChildNodeKey(parting, version, old), leaf)
      withNew == MakeLeaf(withOld, GenChildNodeKey(parting, version, new), k, value)
      children == SetChild(SetChild(<<>>, old, leaf, version), new, withNew.node, version)
  IN CASE Prefix(leaf.key, visited) # Prefix(k, visited) -> Failed(c, key)
       [] Prefix(leaf.key, visited) = Prefix(k, visited) /\ depth = Height ->
            MakeLeaf(DeleteNode(c, key), NodeKey(version, key.path), k, value)
       [] Prefix(leaf.key, visited) = Prefix(k, visited) /\ depth < Height ->
            ChainUp(MakeInternal(withNew.cache, parting, children), version, common)

RECURSIVE PutAt(_, _, _, _, _, _)
PutAt(c, key, version, k, value, visited) ==
  LET node == GetNode(c, key)
      n == k[visited + 1]
      dropped == DeleteNode(c, key)
      below == IF n \in DOMAIN node.children
               THEN PutAt(dropped, GenChildNodeKey(key, node.children[n].version, n), version, k, value, visited + 1)
               ELSE MakeLeaf(dropped, GenChildNodeKey(key, version, n), k, value)
  IN CASE ~HasNode(c, key) -> Failed(c, key)
       [] HasNode(c, key) /\ node.type = "internal" ->
            IF visited = Height THEN Failed(c, key)
            ELSE MakeInternal(below.cache, NodeKey(version, key.path),
                              SetChild(node.children, n, below.node, version))
       [] HasNode(c, key) /\ node.type = "leaf" -> InsertAtLeafNode(c, key, node, version, k, value, visited)
       [] HasNode(c, key) /\ node.type = "null" ->
            IF key.path # <<>> THEN Failed(c, key)
            ELSE MakeLeaf(IF key.version = version THEN dropped ELSE c, NodeKey(version, <<>>), k, value)

-----------------------------------------------------------------------------
(* The calls *)

(* insert_or_assign of the pairs in order: a later pair replaces an        *)
(* earlier one with the same key.                                          *)
LastOf(kvs) == {kvs[i] : i \in {j \in DOMAIN kvs : \A l \in DOMAIN kvs : l > j => kvs[l][1] # kvs[j][1]}}

KeyLess(a, b) == \E i \in 1..Height : a[i] < b[i] /\ Prefix(a, i - 1) = Prefix(b, i - 1)

Sorted(kvs) == SetToSortSeq(LastOf(kvs), LAMBDA x, y : KeyLess(x[1], y[1]))

(* batch_put_value_sets, for one value set.                                *)
BatchPutValueSet(c, kvs) ==
  LET made == BatchInsertAt(c, c.root, c.next, Sorted(kvs), 0)
  IN Freeze([made.cache EXCEPT !.root = made.key])

(* put_value_sets, for one value set.                                      *)
Put(c, kv) ==
  LET made == PutAt(c, c.root, c.next, kv[1], kv[2], 0)
  IN [made.cache EXCEPT !.root = made.key]

PutValueSet(c, kvs) == Freeze(FoldLeft(Put, c, kvs))

(* The map after a value set is put.                                       *)
Assign(m, kv) == [m EXCEPT ![kv[1]] = kv[2]]
After(m, kvs) == FoldLeft(Assign, m, kvs)

Contents(sets) ==
  FoldLeft(LAMBDA cs, kvs : Append(cs, After(Last(cs), kvs)), contents, sets)

(* write_tree_update_batch: an error if a node is there already.           *)
Write(c) ==
  /\ nodes' = nodes @@ c.frozen
  /\ stale' = stale \cup c.frozenStale
  /\ ok' = (ok /\ c.ok /\ DOMAIN nodes \cap DOMAIN c.frozen = {} /\ stale \cap c.frozenStale = {})
  /\ roots' = roots \o c.hashes

ValueSets == UNION {[1..n -> TreeKeys \X TreeValues] : n \in 1..MaxPairs}

CallSets == {sets \in UNION {[1..n -> ValueSets] : n \in 1..MaxSets} : Len(roots) + Len(sets) <= MaxVersion + 1}

BatchPutValueSets(sets) ==
  /\ Write(FoldLeft(BatchPutValueSet, TreeCache(Len(roots)), sets))
  /\ contents' = Contents(sets)
  /\ UNCHANGED <<least, purges>>

PutValueSets(sets) ==
  /\ Write(FoldLeft(PutValueSet, TreeCache(Len(roots)), sets))
  /\ contents' = Contents(sets)
  /\ UNCHANGED <<least, purges>>

(* purge_stale_nodes(version)                                              *)
PurgeStaleNodes(version) ==
  LET pruned == {s \in stale : s.since <= version}
      keys == {s.key : s \in pruned}
  IN /\ purges < MaxPurges
     /\ least <= version
     /\ nodes' = [k \in DOMAIN nodes \ keys |-> nodes[k]]
     /\ stale' = stale \ pruned
     /\ ok' = (ok /\ keys \subseteq DOMAIN nodes)
     /\ least' = version
     /\ purges' = purges + 1
     /\ UNCHANGED <<roots, contents>>

EmptyMap == [k \in TreeKeys |-> NoValue]

(* An empty store, or one with a root of the pre-genesis version.          *)
TreeInit ==
  /\ \/ nodes = NoNodes /\ contents = <<EmptyMap>>
     \/ \E k \in TreeKeys, v \in TreeValues :
          /\ nodes = NodeKey(PreGenesisVersion, <<>>) :> Leaf(k, v)
          /\ contents = <<[EmptyMap EXCEPT ![k] = v]>>
  /\ stale = {}
  /\ roots = <<>>
  /\ least = 0
  /\ purges = 0
  /\ ok = TRUE

TreeNext ==
  \/ \E sets \in CallSets : BatchPutValueSets(sets)
  \/ \E sets \in CallSets : PutValueSets(sets)
  \/ \E version \in 0..Len(roots) - 1 : PurgeStaleNodes(version)

TreeSpec == TreeInit /\ [][TreeNext]_treeVars

-----------------------------------------------------------------------------
(* get_with_proof: status is "found" when the walk ends at a leaf or where *)
(* one would be, and "missing" when a node on the way is not there.        *)
Answer(status, value, leaf, siblings) ==
  [status |-> status, value |-> value, proof |-> Proof(leaf, siblings)]

RECURSIVE Walk(_, _, _, _)
Walk(key, k, depth, siblings) ==
  LET node == nodes[key]
      step == GetChildWithSiblings(node, k[depth + 1])
      n == Only(step.child)
      all == siblings \o step.siblings
  IN IF depth > Height \/ key \notin DOMAIN nodes THEN Answer("missing", NoValue, NoLeaf, siblings)
     ELSE IF node.type = "leaf"
     THEN Answer("found", IF node.key = k THEN node.value ELSE NoValue, [key |-> node.key, value |-> node.value], siblings)
     ELSE IF node.type = "null"
     THEN Answer(IF depth = 0 THEN "found" ELSE "missing", NoValue, NoLeaf, siblings)
     ELSE IF depth = Height THEN Answer("missing", NoValue, NoLeaf, siblings)
     ELSE IF step.child = {} THEN Answer("found", NoValue, NoLeaf, all)
     ELSE Walk(GenChildNodeKey(key, node.children[n].version, n), k, depth + 1, all)

GetWithProof(k, version) == Walk(NodeKey(version, <<>>), k, 0, <<>>)

(* get_rightmost_leaf: the leaves it may answer with.                      *)
RightmostLeaves ==
  LET leaves == {nodes[key] : key \in {key \in DOMAIN nodes : nodes[key].type = "leaf"}}
  IN {l \in leaves : \A other \in leaves : ~KeyLess(l.key, other.key)}

-----------------------------------------------------------------------------
(* Properties *)

Readable == least..Len(roots) - 1
Map(version) == contents[version + 2]

(* No check of the code fails, and no call returns an error: a node is not *)
(* written twice nor made stale twice, an internal node has children and   *)
(* not a lone leaf, and a stale node is there to be purged.                *)
ChecksHold == ok

(* get returns, at every version that is still readable, what was put last *)
(* up to that version: neither an update nor a purge disturbs an older     *)
(* version.                                                                *)
ReadsBack ==
  \A version \in Readable, k \in TreeKeys :
    LET answer == GetWithProof(k, version) IN answer.status = "found" /\ answer.value = Map(version)[k]

(* The reference: the sparse Merkle tree over the bits of the keys in ks,  *)
(* in which a subtree with one key is that leaf.                           *)
RECURSIVE SparseHash(_, _, _)
SparseHash(m, ks, bits) ==
  IF ks = {} THEN Placeholder
  ELSE IF Cardinality(ks) = 1 THEN LET k == Only(ks) IN LeafHash(k, m[k])
  ELSE PairHash(SparseHash(m, {k \in ks : Bit(k, bits - 1) = 0}, bits - 1),
                SparseHash(m, {k \in ks : Bit(k, bits - 1) = 1}, bits - 1))

Present(m) == {k \in TreeKeys : m[k] # NoValue}

(* The root hash that a call returns depends on the map alone, not on the  *)
(* order of the updates nor on batches: it is the hash of the sparse       *)
(* Merkle tree of the map.  (put_value_set against batch_put_value_sets.)  *)
RootIsCanonical ==
  \A version \in 0..Len(roots) - 1 : roots[version + 1] = SparseHash(Map(version), Present(Map(version)), KeyBits)

(* get_with_proof's proof of a key that is present verifies against the    *)
(* root of its version; and what a proof of the tree verifies is true, of  *)
(* whatever key and value it is asked.                                     *)
ProofsAreRight ==
  \A version \in Readable, k \in TreeKeys :
    LET answer == GetWithProof(k, version)
        Accepts(key, value) == Verify(answer.proof, roots[version + 1], key, value)
    IN /\ Map(version)[k] # NoValue => Accepts(k, Map(version)[k])
       /\ \A key \in TreeKeys, value \in TreeValues \cup {NoValue} :
            Accepts(key, value) => Map(version)[key] = value

RECURSIVE Reach(_)
Reach(key) ==
  IF key \notin DOMAIN nodes \/ nodes[key].type # "internal" THEN {key}
  ELSE {key} \cup UNION {Reach(GenChildNodeKey(key, nodes[key].children[n].version, n)) : n \in DOMAIN nodes[key].children}

(* The stale node index is exact: the store holds the nodes of the         *)
(* readable versions, all of them and, once it is purged, no other.        *)
StoreIsExact ==
  LET needed == UNION {Reach(NodeKey(version, <<>>)) : version \in Readable}
  IN needed \subseteq DOMAIN nodes /\ (purges > 0 => needed = DOMAIN nodes)

(* The leaf count of a root is the number of keys, and the rightmost leaf  *)
(* is that of the greatest key.                                            *)
CountsAreRight ==
  /\ \A version \in Readable : LeafCount(nodes[NodeKey(version, <<>>)]) = Cardinality(Present(Map(version)))
  /\ roots # <<>> => \A l \in RightmostLeaves : \A k \in Present(Last(contents)) : ~KeyLess(l.key, k)
==============================================================================
