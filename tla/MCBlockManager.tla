--------------------------- MODULE MCBlockManager ---------------------------
(* Instances of BlockManager for TLC: prompts that share prefixes and one  *)
(* that is exactly the first block of another.                             *)
EXTENDS BlockManager

MCPrompts == {<<1, 2, 1>>, <<1, 2>>, <<2, 1>>, <<2>>}
=============================================================================
