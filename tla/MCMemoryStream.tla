--------------------------- MODULE MCMemoryStream ---------------------------
(***************************************************************************)
(* CMemoryStreamT with three-bit sizes, blocks of at least two bytes and   *)
(* clients that ask for few different sizes.  The sizes reach 0 and both   *)
(* sides of every limit: a quarter of the block, its end, the largest size *)
(* and beyond.                                                             *)
(***************************************************************************)
EXTENDS MemoryStream

MCCounts == {0, 1, M - 1}
MCMoves  == {-M, 0, 4}
MCTexts  == {<<"a", "b", "b">>}
=============================================================================
