------------------------------ MODULE MCShard -------------------------------
(* A two-shard instance: one key alone in shard 0, two keys that share     *)
(* shard 1, and channels of one slot, so that readers block.               *)
EXTENDS ShardDedup, TLC

CONSTANTS a, b, c, r1, r2

MCHash == (a :> 4) @@ (b :> 7) @@ (c :> 1)

MCMaxCopies == (a :> 1) @@ (b :> 2) @@ (c :> 1)
=============================================================================
