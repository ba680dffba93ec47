----------------------------- MODULE MC_Merkle -----------------------------
(***************************************************************************)
(* MerkleBatch instantiated for TLC: three RUIDs and batches of up to five     *)
(* RUIDs, so that trees of height 0 to 3 and odd layers at every level    *)
(* occur.                                                                  *)
(***************************************************************************)
EXTENDS MerkleBatch

MC_RUIDValues == {1, 2, 3}

=============================================================================
