----------------------------- MODULE MCNandPart -----------------------------
(* Two partitions at most for A10, three for A20, and up to three lengths   *)
(* given; starts around the limits.  The second table has a gap.  A length  *)
(* of 254 is -2 in the 8 bits of a word: the sector behind it wraps.        *)
EXTENDS NandPart

MCMaxPart == [a10 |-> 2, a20 |-> 3]
MCTables == {<<PARTITION(8, 4)>>,
             <<PARTITION(128, 4), PARTITION(134, 6)>>}
MCStarts == {7, 8, 128}
MCArgLens == {<<>>, <<3>>, <<254, 3>>, <<3, 3, 3>>}
=============================================================================
