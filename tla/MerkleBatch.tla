---------------------------- MODULE MerkleBatch ----------------------------
(***************************************************************************)
(* A batch collecting RUIDs, one Claim per CopyrightClaimed event of its  *)
(* range in log order, duplicates included.  The invariants relate the    *)
(* root calculateRootHash computes for the current batch to a top-down    *)
(* reference tree and to the proofs of spec.md 4.2.                       *)
(***************************************************************************)
EXTENDS Merkle

CONSTANTS
    RUIDValues,   \* the RUIDs a claim may carry (naturals)
    MaxLeaves     \* bound on the RUIDs of one batch

ASSUME RUIDValues \subseteq Nat /\ MaxLeaves \in Nat \ {0}

VARIABLE claimed   \* RUIDs of the batch, in the order their events came

Init == claimed = <<>>

\* A CopyrightClaimed event of the batch range carrying `r`.
Claim(r) ==
    /\ Len(claimed) < MaxLeaves
    /\ claimed' = Append(claimed, r)

Next == \E r \in RUIDValues : Claim(r)

Spec == Init /\ [][Next]_claimed

Sorted == SortSeq(claimed, LAMBDA a, b : a < b)

\* buildMerkleRoot's bottom-up loop, with its duplication of the last node
\* of odd layers, computes the root of the top-down tree of spec.md 4.2
\* for the sorted RUIDs of the batch.
RootMatchesReference == CalculateRoot(claimed) = ReferenceRoot(Sorted)

\* spec.md 9 (6), proof soundness: the proof extracted for position i of
\* the sorted batch verifies against the batch root for that position's
\* RUID and for no other RUID.
ProofSound ==
    \A i \in 1..Len(Sorted), r \in RUIDValues :
        VerifyRUID(GetProof(Sorted, i), r, CalculateRoot(claimed)) <=> r = Sorted[i]

=============================================================================
