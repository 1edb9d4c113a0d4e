-------------------------------- MODULE MCQueue --------------------------------
(* CspQueue for TLC: three slots and two distinct items, so that the ring     *)
(* wraps with every fill level and every offset of head and tail.             *)
EXTENDS CspQueue
================================================================================
