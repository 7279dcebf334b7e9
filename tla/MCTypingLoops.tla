--------------------------- MODULE MCTypingLoops ---------------------------
(* Two turns in a group, and others in a direct chat.                      *)
EXTENDS TypingLoops

CONSTANTS g1, g2, group, direct

MCChatOf == [t \in Turn |-> IF t \in {g1, g2} THEN group ELSE direct]
=============================================================================
