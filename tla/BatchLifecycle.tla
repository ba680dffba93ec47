--------------------------- MODULE BatchLifecycle ---------------------------
(***************************************************************************)
(* What the OTS consensus state promises along the chain of snapshots     *)
(* (spec.md 3.2 and 4.5), with no receipts, transactions or caches:       *)
(*                                                                         *)
(*  - the chain grows one block at a time;                                 *)
(*  - a batch opens over exactly the blocks after the last anchored one   *)
(*    and before the block that opens it;                                  *)
(*  - an open batch moves through Triggered, Submitted, Confirmed one      *)
(*    phase per block, and closing it advances the anchored height to its  *)
(*    end in the same block that clears it;                                *)
(*  - a block changes the batch at most once.                              *)
(***************************************************************************)
EXTENDS Naturals

CONSTANT NoBatch

VARIABLES
    height,    \* number of the chain head
    anchored,  \* last block covered by an anchored batch
    pending    \* the open batch [start, end, phase] or NoBatch

vars == <<height, anchored, pending>>

Triggered == 1
Confirmed == 3

Init == height = 0 /\ anchored = 0 /\ pending = NoBatch

\* A batch opens over anchored+1 .. height, the blocks before the new one.
Open ==
    /\ pending = NoBatch
    /\ anchored < height
    /\ pending' = [start |-> anchored + 1, end |-> height, phase |-> Triggered]
    /\ UNCHANGED anchored

Advance ==
    /\ pending # NoBatch
    /\ pending.phase < Confirmed
    /\ pending' = [pending EXCEPT !.phase = @ + 1]
    /\ UNCHANGED anchored

Close ==
    /\ pending # NoBatch
    /\ pending.phase = Confirmed
    /\ anchored' = pending.end
    /\ pending' = NoBatch

Keep == UNCHANGED <<anchored, pending>>

NextBlock == height' = height + 1 /\ (Open \/ Advance \/ Close \/ Keep)

Spec == Init /\ [][NextBlock]_vars

=============================================================================
