--------------------------- MODULE MC_LegacyBuilder ---------------------------
(***************************************************************************)
(* LegacyBuilder for TLC: uint64 as 3 bits (values at and above 2^63     *)
(* occur), bytes32 as 2 bytes, two roots, and txid strings: empty, with a *)
(* "0x" prefix and an odd digit count, and four hex digits with letters.  *)
(***************************************************************************)
EXTENDS LegacyBuilder

\* "", "0x1", "4fa2"
MC_TxIdStrings == {<<>>, <<48, 120, 49>>, <<52, 102, 97, 50>>}

=============================================================================
