--------------------------- MODULE MCAccountLink ---------------------------
(* Symmetries for the runs of AccountLink.                                 *)
EXTENDS AccountLink, TLC

LinkSymmetry ==
  Permutations(Guest) \union Permutations(Code) \union Permutations(Telegram)
    \union Permutations(Command)
=============================================================================
