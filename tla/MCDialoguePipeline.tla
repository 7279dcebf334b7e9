------------------------ MODULE MCDialoguePipeline ------------------------
(* Constants for the runs of DialoguePipeline.                             *)
EXTENDS DialoguePipeline, TLC

CONSTANTS ann, bob, direct, group, t1, t2, t3

\* All messages from one user and one chat.
OneUserOf == [m \in Message |-> ann]
OneChatOf == [m \in Message |-> direct]

\* A second user who sends the last message.
TwoUserOf == [m \in Message |-> IF m = NMessages THEN bob ELSE ann]

\* The first message comes from the direct chat, the others from a group.
TwoChatOf == [m \in Message |-> IF m = 1 THEN direct ELSE group]

SlotSymmetry == Permutations(Task)
=============================================================================
