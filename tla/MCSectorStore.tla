--------------------------- MODULE MCSectorStore ---------------------------
(***************************************************************************)
(* SectorStore on two chunks of two sectors with a cache of one: eviction  *)
(* starts with the second sector, a chunk can hold resident and spilled    *)
(* sectors at once, a sector can be spilled, rewritten and spilled again,  *)
(* and a span can cross from one chunk into the other and past the last    *)
(* sector number.                                                          *)
(***************************************************************************)
EXTENDS SectorStore, TLC

\* No payload is treated differently from another.
PayloadSymmetry == Permutations(Payloads)
=============================================================================
