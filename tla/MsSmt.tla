------------------------------- MODULE MsSmt --------------------------------
(***************************************************************************)
(* The Merkle-sum sparse Merkle tree of taproot-assets (package mssmt) in  *)
(* its compacted form, on the in-memory store that commitments use and on  *)
(* the SQL store (tapdb/mssmt.go) that universes use, beside the full tree *)
(* it is meant to equal.                                                   *)
(*                                                                         *)
(* A hash is injective, so a node is its own hash: a leaf <<value, sum>>,  *)
(* a branch <<left, right, sum>>.  Keys are sequences of Levels bits.      *)
(***************************************************************************)
EXTENDS Integers, Sequences, FiniteSets

CONSTANTS Levels,     \* MaxTreeLevels, 256 in the code
          Keys,       \* keys in use
          Leaves,     \* [Keys -> sets of leaves]
          MaxSum,     \* the largest uint64
          Backends    \* subset of {"memory", "sql"}

EmptyLeaf == <<0, 0>>

\* Two keys that differ in their last bit only would meet in a leaf that
\* insert does not expect; a leaf commits to what its key is made of, so no
\* leaf belongs to two keys.
ASSUME KeysAssumption ==
  /\ Keys \subseteq [1..Levels -> {0, 1}]
  /\ \A j, k \in Keys : j # k => \E i \in 1..(Levels - 1) : j[i] # k[i]
ASSUME LeavesAssumption ==
  /\ \A k \in Keys : \A l \in Leaves[k] : l[1] # 0 /\ l[2] \in 0..MaxSum
  /\ \A j, k \in Keys : j # k => Leaves[j] \cap Leaves[k] = {}

VARIABLES tree,       \* the store of the compacted tree
          full,       \* the store of the full tree
          content     \* [Keys -> leaf]: what was inserted last
vars == <<tree, full, content>>

None == "none"
Sum(n) == n[Len(n)]
Branch(l, r) == <<l, r, (Sum(l) + Sum(r)) % (MaxSum + 1)>>
EmptyTree[h \in 0..Levels] ==
  IF h = Levels THEN EmptyLeaf ELSE Branch(EmptyTree[h + 1], EmptyTree[h + 1])

Bit(key, h) == key[h + 1]

\* The branch at height h whose child on the way to key is next.
StepOrder(h, key, next, sibling) ==
  IF Bit(key, h) = 0 THEN Branch(next, sibling) ELSE Branch(sibling, next)

\* The subtree at height h with nothing but this leaf (NewCompactedLeafNode,
\* Extract).
RECURSIVE Compacted(_, _, _)
Compacted(h, key, leaf) ==
  IF h = Levels THEN leaf
  ELSE StepOrder(h, key, Compacted(h + 1, key, leaf), EmptyTree[h + 1])

-----------------------------------------------------------------------------
(***************************************************************************)
(* The stores.  The three maps of the memory store, or the rows of the     *)
(* SQL table, for which a second row with a hash is an error that rolls    *)
(* the transaction back; the row of the root goes with its node.           *)
(***************************************************************************)
NewStore(backend) ==
  [backend |-> backend, branches |-> {}, leaves |-> {}, compacted |-> << >>,
   root |-> None, err |-> FALSE]

Fail(st) == [st EXCEPT !.err = TRUE]
Taken(st, n) == st.backend = "sql" /\ (n \in st.branches \/ n \in DOMAIN st.compacted)

InsertBranch(st, b) ==
  IF Taken(st, b) THEN Fail(st) ELSE [st EXCEPT !.branches = @ \cup {b}]

InsertCompactedLeaf(st, h, key, leaf) ==
  LET n == Compacted(h, key, leaf)
  IN  IF Taken(st, n) THEN Fail(st)
      ELSE [st EXCEPT !.compacted =
              [m \in DOMAIN @ \cup {n} |-> IF m = n THEN [key |-> key, leaf |-> leaf] ELSE @[m]]]

Without(f, n) == [m \in DOMAIN f \ {n} |-> f[m]]

DeleteNode(st, n) ==
  [st EXCEPT !.branches = @ \ {n}, !.compacted = Without(@, n),
             !.root = IF @ = n THEN None ELSE @]
DeleteBranch(st, n) ==
  IF st.backend = "sql" THEN DeleteNode(st, n) ELSE [st EXCEPT !.branches = @ \ {n}]
DeleteCompactedLeaf(st, n) ==
  IF st.backend = "sql" THEN DeleteNode(st, n) ELSE [st EXCEPT !.compacted = Without(@, n)]

RootNode(st) == IF st.root = None THEN EmptyTree[0] ELSE st.root
UpdateRoot(st, n) ==
  IF st.backend = "sql" /\ n = EmptyTree[0] THEN st ELSE [st EXCEPT !.root = n]

\* What the store returns for the hash n at height h.  A missing node counts
\* as an empty subtree; the memory store recognises the empty ones first.
GetNode(st, h, n) ==
  LET At(kind, hash, key, leaf) == [kind |-> kind, hash |-> hash, key |-> key, leaf |-> leaf]
      empty == At("empty", EmptyTree[h], << >>, EmptyLeaf)
  IN  IF st.backend = "memory" /\ n = EmptyTree[h] THEN empty
      ELSE IF n \in st.branches THEN At("branch", n, << >>, EmptyLeaf)
      ELSE IF n \in DOMAIN st.compacted
      THEN LET c == st.compacted[n]
           IN  At("compacted", Compacted(h, c.key, c.leaf), c.key, c.leaf)
      ELSE IF n \in st.leaves THEN At("leaf", n, << >>, n)
      ELSE empty

\* GetChildren of the memory store refuses what is not a branch.
Readable(st, h, n) == st.backend = "sql" \/ n = EmptyTree[h] \/ n \in st.branches

\* The children of n, the one on the way to key first.
Child(st, h, n, key) == GetNode(st, h + 1, n[1 + Bit(key, h)])
Sibling(st, h, n, key) == GetNode(st, h + 1, n[2 - Bit(key, h)])

-----------------------------------------------------------------------------
(***************************************************************************)
(* CompactedTree.  An update returns the store and the new node.           *)
(***************************************************************************)
Result(st, n) == [st |-> st, node |-> n]

RECURSIVE Raise(_, _, _, _, _)
Raise(st, key, n, from, to) ==
  IF from < to THEN Result(st, n)
  ELSE LET parent == StepOrder(from, key, n, EmptyTree[from + 1])
       IN  Raise(InsertBranch(st, parent), key, parent, from - 1, to)

CommonPrefixLen(j, k) ==
  CHOOSE c \in 0..Levels : /\ \A i \in 0..(c - 1) : Bit(j, i) = Bit(k, i)
                           /\ c < Levels => Bit(j, c) # Bit(k, c)

Merge(st, h, key1, leaf1, key2, leaf2) ==
  LET c == CommonPrefixLen(key1, key2)
      both == InsertCompactedLeaf(InsertCompactedLeaf(st, c + 1, key1, leaf1),
                                  c + 1, key2, leaf2)
      parent == StepOrder(c, key1, Compacted(c + 1, key1, leaf1), Compacted(c + 1, key2, leaf2))
  IN  Raise(InsertBranch(both, parent), key1, parent, c - 1, h)

Compact(st, h, key, leaf) ==
  Result(InsertCompactedLeaf(st, h, key, leaf), Compacted(h, key, leaf))

\* The compacted leaf old is replaced, removed or merged with the new one.
Replace(st, h, key, leaf, old) ==
  IF key # old.key THEN Merge(st, h, key, leaf, old.key, old.leaf)
  ELSE IF leaf = EmptyLeaf THEN Result(st, EmptyTree[h])
  ELSE Compact(st, h, key, leaf)

\* Mutant: the old branch stays in the store.
RebranchKept(r, h, key, root, sibling) ==
  LET new == StepOrder(h, key, r.node, sibling)
  IN  Result(IF new = EmptyTree[h] THEN r.st ELSE InsertBranch(r.st, new), new)

\* The branch root is replaced by one with the updated child.
Rebranch(r, h, key, root, sibling) ==
  LET old == IF root = EmptyTree[h] THEN r.st ELSE DeleteBranch(r.st, root)
      new == StepOrder(h, key, r.node, sibling)
  IN  Result(IF new = EmptyTree[h] THEN old ELSE InsertBranch(old, new), new)

RECURSIVE InsertAt(_, _, _, _, _)
InsertAt(st, key, h, root, leaf) ==
  LET next == Child(st, h, root, key)
      below == CASE next.kind = "empty"  -> Compact(st, h + 1, key, leaf)
                 [] next.kind = "branch" -> InsertAt(st, key, h + 1, next.hash, leaf)
                 [] OTHER -> Replace(DeleteCompactedLeaf(st, next.hash), h + 1, key, leaf, next)
  IN  IF ~Readable(st, h, root) THEN Result(Fail(st), root)
      ELSE Rebranch(below, h, key, root, Sibling(st, h, root, key).hash)

Committed(st, r) == IF r.st.err THEN Fail(st) ELSE UpdateRoot(r.st, r.node)
CompactInsert(st, key, leaf) == Committed(st, InsertAt(st, key, 0, RootNode(st), leaf))

\* walkDown: the leaf of key and the siblings on the way, the lowest first.
\* Below a compacted leaf nothing is read: its branches are recomputed.
RECURSIVE WalkSubtree(_, _, _)
WalkSubtree(key, h, n) ==
  IF h = Levels THEN [leaf |-> n, siblings |-> << >>]
  ELSE [WalkSubtree(key, h + 1, n[1 + Bit(key, h)])
          EXCEPT !.siblings = Append(@, n[2 - Bit(key, h)])]

RECURSIVE WalkDown(_, _, _, _)
WalkDown(st, key, h, n) ==
  IF h = Levels THEN [leaf |-> n, siblings |-> << >>]
  ELSE LET next == Child(st, h, n, key)
           rest == IF next.kind = "compacted" THEN WalkSubtree(key, h + 1, next.hash)
                   ELSE WalkDown(st, key, h + 1, next.hash)
       IN  [rest EXCEPT !.siblings = Append(@, Sibling(st, h, n, key).hash)]

Get(st, key) == WalkDown(st, key, 0, RootNode(st)).leaf
MerkleProof(st, key) == WalkDown(st, key, 0, RootNode(st)).siblings

(***************************************************************************)
(* FullTree: every node on the way is stored, the lowest is replaced       *)
(* first.  A deleted leaf stays in the store, for DeleteLeaf is given the  *)
(* key of the leaf and not its hash.                                       *)
(***************************************************************************)
RECURSIVE FullAt(_, _, _, _, _)
FullAt(st, key, h, root, leaf) ==
  IF h = Levels THEN Result(st, leaf)
  ELSE Rebranch(FullAt(st, key, h + 1, Child(st, h, root, key).hash, leaf),
                h, key, root, Sibling(st, h, root, key).hash)

FullInsert(st, key, leaf) ==
  LET r == FullAt(st, key, 0, RootNode(st), leaf)
  IN  [UpdateRoot(r.st, r.node) EXCEPT !.leaves = @ \cup ({leaf} \ {EmptyLeaf})]

(***************************************************************************)
(* Proofs: siblings that belong to the empty tree are sent as bits.        *)
(***************************************************************************)
EmptyAt(i) == EmptyTree[Levels - i + 1]

Compress(p) ==
  LET sent == SelectSeq([i \in DOMAIN p |-> i], LAMBDA i : p[i] # EmptyAt(i))
  IN  [bits |-> [i \in DOMAIN p |-> p[i] = EmptyAt(i)],
       nodes |-> [j \in DOMAIN sent |-> p[sent[j]]]]

\* Mutant: the empty nodes are counted from the root.
DecompressFromRoot(c) ==
  [i \in DOMAIN c.bits |->
     IF c.bits[i] THEN EmptyTree[i]
     ELSE c.nodes[Cardinality({j \in 1..i : ~c.bits[j]})]]

Decompress(c) ==
  [i \in DOMAIN c.bits |->
     IF c.bits[i] THEN EmptyAt(i)
     ELSE c.nodes[Cardinality({j \in 1..i : ~c.bits[j]})]]

RECURSIVE WalkUp(_, _, _)
WalkUp(key, n, siblings) ==
  IF siblings = << >> THEN n
  ELSE WalkUp(key, StepOrder(Len(siblings) - 1, key, n, Head(siblings)), Tail(siblings))

VerifyMerkleProof(key, leaf, p, root) == WalkUp(key, leaf, p) = root

-----------------------------------------------------------------------------
Init ==
  /\ \E b \in Backends : tree = NewStore(b)
  /\ full = NewStore("memory")
  /\ content = [k \in Keys |-> EmptyLeaf]

\* Mutant: only the new leaf itself is looked at.
FitsAlone(leaf) == Sum(leaf) <= MaxSum

\* CheckSumOverflowUint64.  A leaf that replaces another counts in full.
Fits(leaf) == Sum(RootNode(tree)) + Sum(leaf) <= MaxSum

Insert(k, leaf) ==
  /\ ~tree.err /\ Fits(leaf)
  /\ tree' = CompactInsert(tree, k, leaf)
  /\ full' = FullInsert(full, k, leaf)
  /\ content' = [content EXCEPT ![k] = leaf]

\* Also of a key that is not there.  Trees in the database are only deleted as
\* a whole.
Delete(k) ==
  /\ ~tree.err /\ tree.backend = "memory"
  /\ tree' = CompactInsert(tree, k, EmptyLeaf)
  /\ full' = FullInsert(full, k, EmptyLeaf)
  /\ content' = [content EXCEPT ![k] = EmptyLeaf]

\* DeleteAllNodes and DeleteRoot.
DeleteTree ==
  /\ tree.backend = "sql" /\ tree.root # None
  /\ tree' = [tree EXCEPT !.branches = {}, !.compacted = << >>, !.root = None]
  /\ full' = NewStore("memory")
  /\ content' = [k \in Keys |-> EmptyLeaf]

Next ==
  \/ \E k \in Keys : \E l \in Leaves[k] : Insert(k, l)
  \/ \E k \in Keys : Delete(k)
  \/ DeleteTree

Spec == Init /\ [][Next]_vars

-----------------------------------------------------------------------------
(***************************************************************************)
(* Properties.                                                             *)
(***************************************************************************)
Prefixes(h) == {SubSeq(k, 1, h) : k \in Keys}
Under(p) == {k \in Keys : SubSeq(k, 1, Len(p)) = p /\ content[k] # EmptyLeaf}

\* What the subtree at a prefix has to be: the tree of the leaves below it.
RECURSIVE Reference(_)
Reference(p) ==
  IF Len(p) = Levels THEN IF p \in Keys THEN content[p] ELSE EmptyLeaf
  ELSE LET l == Reference(Append(p, 0))
           r == Reference(Append(p, 1))
       IN  <<l, r, Sum(l) + Sum(r)>>

\* "The tree has the same properties as a normal MS-SMT tree and is able to
\* create the same proofs and same root as the FullTree" (compacted_tree.go):
\* whatever was inserted, replaced and deleted in whatever order, the root
\* depends on the leaves only, its sum is theirs, and both trees agree on it
\* and on every proof.
RootIsCanonical ==
  /\ RootNode(tree) = Reference(<< >>) /\ RootNode(full) = RootNode(tree)
  /\ \A k \in Keys : MerkleProof(tree, k) = MerkleProof(full, k)

\* A proof, sent in compressed form, shows the leaf of its key, or that there
\* is none, and shows nothing false of any key.
ProofsBind ==
  LET p == [k \in Keys |-> Decompress(Compress(MerkleProof(tree, k)))]
  IN  \A k \in Keys :
        /\ Get(tree, k) = content[k]
        /\ VerifyMerkleProof(k, content[k], p[k], RootNode(tree))
        /\ \A j \in Keys, l \in UNION {Leaves[i] : i \in Keys} \cup {EmptyLeaf} :
             VerifyMerkleProof(j, l, p[k], RootNode(tree)) => l = content[j]

\* A tree in the database has one row for each branch with two leaves or more
\* below it, and for the root, and one for each leaf, at the highest place
\* where it is alone; so no insertion meets a row that is already there.
RowsAreExact ==
  LET Alone(p) == Cardinality(Under(p)) = 1
      inner == {p \in UNION {Prefixes(h) : h \in 1..Levels} : Cardinality(Under(p)) > 1}
      outer == {p \in UNION {Prefixes(h) : h \in 1..Levels} :
                  Alone(p) /\ (Len(p) = 1 \/ ~Alone(SubSeq(p, 1, Len(p) - 1)))}
  IN  /\ ~tree.err
      /\ tree.backend = "sql" =>
           /\ tree.branches = {Reference(p) : p \in inner} \cup
                              (IF Under(<< >>) = {} THEN {} ELSE {Reference(<< >>)})
           /\ DOMAIN tree.compacted = {Reference(p) : p \in outer}
           /\ \A p \in outer : tree.compacted[Reference(p)].key \in Under(p)
=============================================================================
