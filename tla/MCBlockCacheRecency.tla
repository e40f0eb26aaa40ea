------------------------ MODULE MCBlockCacheRecency -------------------------
(* The instances of MCBlockCache for the specification with history. *)
EXTENDS BlockCacheRecency, MCBlockCache
=============================================================================
