---------------------------- MODULE MC_SysTxFlow ----------------------------
(***************************************************************************)
(* SysTxFlow instantiated for TLC: uint64 as 3 bits (so that values at    *)
(* and above 2^63 occur), bytes32 as 2 bytes, and two Bitcoin txids.      *)
(***************************************************************************)
EXTENDS SysTxFlow

MC_TxIds == {<<79, 162>>, <<0, 1>>}

=============================================================================
