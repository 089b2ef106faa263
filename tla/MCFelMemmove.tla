---------------------------- MODULE MCFelMemmove ----------------------------
(* All copies within sixteen bytes: every alignment, every overlap, heads, *)
(* tails and up to three words.                                            *)
EXTENDS FelMemmove

=============================================================================
