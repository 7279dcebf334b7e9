---------------------------- MODULE MessageFate ----------------------------
(***************************************************************************)
(* What the dialogue pipeline promises about every incoming message, seen  *)
(* from outside: it is pending until it is settled (answered, skipped on   *)
(* purpose or dead-lettered); settled and lost are for ever.  It can be    *)
(* lost only after it was parked, that is, after it, or the reply to it,   *)
(* was handed over to the nodya:scheduled ZSet; a message that only ever   *)
(* travelled through RabbitMQ is never lost.                               *)
(***************************************************************************)
CONSTANT Message

VARIABLES
  fate,      \* fate[m]: what has become of m
  parked     \* the messages that have ever been in the ZSet

fateVars == <<fate, parked>>

Fates == {"unsent", "pending", "settled", "lost"}

FateTypeOK ==
  /\ fate \in [Message -> Fates]
  /\ parked \in SUBSET Message

FateInit ==
  /\ fate = [m \in Message |-> "unsent"]
  /\ parked = {}

\* fate with the messages of S turned into f.
Turned(S, f) == [m \in Message |-> IF m \in S THEN f ELSE fate[m]]

Accept(m) ==
  /\ fate[m] = "unsent"
  /\ fate' = Turned({m}, "pending")
  /\ UNCHANGED parked

\* A batch, or the reply to it, goes into the ZSet.
Park(S) ==
  /\ \A m \in S : fate[m] \in {"pending", "settled"}
  /\ parked' = parked \union S
  /\ UNCHANGED fate

\* A batch is answered, skipped or dead-lettered.
Settle(S) ==
  /\ \A m \in S : fate[m] \in {"pending", "settled"}
  /\ fate' = Turned(S, "settled")
  /\ UNCHANGED parked

\* Parked messages are forgotten.
Lose(S) ==
  /\ S \subseteq parked
  /\ \A m \in S : fate[m] = "pending"
  /\ fate' = Turned(S, "lost")
  /\ UNCHANGED parked

FateNext ==
  \/ \E m \in Message : Accept(m)
  \/ \E S \in SUBSET Message : Park(S) \/ Settle(S) \/ Lose(S)

FateSpec == FateInit /\ [][FateNext]_fateVars
=============================================================================
