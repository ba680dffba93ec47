------------------------------- MODULE Merkle -------------------------------
(***************************************************************************)
(* The Merkle root of a batch: calculateRootHash and buildMerkleRoot of    *)
(* src/metrics/metrics.go.  RUIDs are naturals, ordered as bytes.Compare  *)
(* orders 32-byte big-endian values.  Hashes are terms: keccak256 is      *)
(* assumed collision-free, so a hash is the term it was computed from.    *)
(* Because the two children are sorted before they are concatenated and   *)
(* hashed, an inner node is a function of the unordered pair of children. *)
(***************************************************************************)
EXTENDS OTSState, Naturals, Sequences, SequencesExt

\* crypto.Keccak256Hash(ruid[:]): the leaf hash.  Leaves hash 32 bytes and
\* inner nodes 64, so the two never collide; the tags keep them apart.
LeafHash(ruid) == <<"leaf", {ruid}>>

\* Variant of Combine that hashes the children in position order.
CombineUnsorted(left, right) == <<"node", <<left, right>>>>

\* The inner node: swap so that left <= right, then keccak(left || right).
Combine(left, right) == <<"node", {left, right}>>

\* An odd layer gets its last node duplicated (Bitcoin style).
PadOdd(layer) ==
    IF Len(layer) % 2 = 1 THEN Append(layer, Last(layer)) ELSE layer

\* Variant of NextLayer that carries the odd last node up unhashed.
NextLayerCarry(layer) ==
    [i \in 1..(Len(layer) + 1) \div 2 |->
        IF 2 * i > Len(layer) THEN layer[2 * i - 1]
        ELSE Combine(layer[2 * i - 1], layer[2 * i])]

\* One pass of the `for len(currentLayer) > 1` loop.
NextLayer(layer) ==
    LET l == PadOdd(layer)
    IN  [i \in 1..Len(l) \div 2 |-> Combine(l[2 * i - 1], l[2 * i])]

RECURSIVE ReduceLayers(_)
ReduceLayers(layer) ==
    IF Len(layer) = 1 THEN layer[1] ELSE ReduceLayers(NextLayer(layer))

Leaves(ruids) == [i \in 1..Len(ruids) |-> LeafHash(ruids[i])]

\* buildMerkleRoot: the zero hash for no RUIDs.
BuildMerkleRoot(ruids) ==
    IF ruids = <<>> THEN ZeroHash ELSE ReduceLayers(Leaves(ruids))

\* calculateRootHash after collecting: the zero hash for no RUIDs,
\* otherwise the RUIDs sorted ascending (sort.Slice) and buildMerkleRoot.
CalculateRoot(ruids) ==
    IF ruids = <<>> THEN ZeroHash
    ELSE BuildMerkleRoot(SortSeq(ruids, LAMBDA a, b : a < b))

-----------------------------------------------------------------------------
(* Reference tree (spec.md 4.2), built top-down: a tree of height h over  *)
(* at most 2^h leaves has as left child the tree over the first 2^(h-1)   *)
(* leaves and as right child the tree over the rest, or a copy of the     *)
(* left child when there is no rest.                                      *)

RECURSIVE Subtree(_, _)
Subtree(h, leaves) ==
    IF h = 0 THEN leaves[1]
    ELSE LET k    == 2 ^ (h - 1)
             left == Subtree(h - 1, SubSeq(leaves, 1, IF Len(leaves) < k THEN Len(leaves) ELSE k))
         IN  Combine(left, IF Len(leaves) > k
                           THEN Subtree(h - 1, SubSeq(leaves, k + 1, Len(leaves)))
                           ELSE left)

\* The least h with 2^h >= n.
TreeHeight(n) == CHOOSE h \in 0..n : 2 ^ h >= n /\ (h = 0 \/ 2 ^ (h - 1) < n)

ReferenceRoot(ruids) ==
    IF ruids = <<>> THEN ZeroHash ELSE Subtree(TreeHeight(Len(ruids)), Leaves(ruids))

-----------------------------------------------------------------------------
(* Proofs (spec.md 4.2): the siblings from leaf i up to the root, taken   *)
(* from the layers buildMerkleRoot computes; verification folds Combine   *)
(* over them, so the left/right flag is not needed.                        *)

RECURSIVE ProofPath(_, _)
ProofPath(layer, i) ==
    IF Len(layer) = 1 THEN <<>>
    ELSE LET l == PadOdd(layer)
         IN  <<IF i % 2 = 1 THEN l[i + 1] ELSE l[i - 1]>>
                \o ProofPath(NextLayer(layer), (i + 1) \div 2)

GetProof(ruids, i) == ProofPath(Leaves(ruids), i)

VerifyRUID(proof, ruid, root) == FoldLeft(Combine, LeafHash(ruid), proof) = root

=============================================================================
