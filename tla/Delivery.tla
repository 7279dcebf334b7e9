------------------------------ MODULE Delivery ------------------------------
(***************************************************************************)
(* The way out: what the Worker, the poller, the commands and the feed     *)
(* jobs publish to outgoing_messages, and TGSender, which delivers it to   *)
(* Telegram.  Its callbacks run concurrently, up to the prefetch limit.    *)
(* The connection to the broker is lost with the process only: a callback  *)
(* that outlives its channel, as it may when connect_robust reconnects, is *)
(* not modelled.                                                           *)
(***************************************************************************)
EXTENDS Integers, FiniteSets, Sequences

CONSTANTS
  Message,       \* what is published
  Pinned,        \* messages that name their chat: answers to a message
  Unreachable,   \* messages whose user has no telegram_id (any more)
  OtherChannel,  \* messages of another channel than telegram
  Malformed,     \* payloads that are no OutgoingMessage
  Prefetch,      \* _PREFETCH_COUNT
  MaxAttempts,   \* _MAX_SEND_ATTEMPTS
  MaxFaults,     \* bounds the failures
  MaxEnds        \* bounds the ends of the process

ASSUME DeliveryAssumption ==
  /\ IsFiniteSet(Message)
  /\ Pinned \union Unreachable \union OtherChannel \union Malformed
       \subseteq Message
  /\ Unreachable \intersect Pinned = {}
  /\ {Prefetch, MaxAttempts} \subseteq Nat \ {0}
  /\ {MaxFaults, MaxEnds} \subseteq Nat

VARIABLES
  outgoing,  \* outgoing_messages, what is ready in it
  handler,   \* handler[m]: how far _on_message is with m
  attempt,   \* attempt[m]: attempts of this callback that failed
  settled,   \* settled[m]: how the broker let go of m
  connected, \* the sender consumes
  (* history *)
  copies,    \* copies[m]: how often Telegram accepted m
  unsure,    \* unsure[m]: how often nobody could know that it had
  failures,  \* failures[m]: refusals, and failed attempts of this callback
  faults,
  ends

history == <<copies, unsure, failures>>
vars == <<outgoing, handler, attempt, settled, connected, history, faults, ends>>

-----------------------------------------------------------------------------

\* resolve: the chat id is looked up; send: before an attempt; pause: between
\* two attempts; ack, drop, nack: before the acknowledgement; stuck: the
\* callback raised.
HandlerPhases ==
  {"none", "resolve", "send", "pause", "ack", "drop", "nack", "stuck"}

Fates == {"unpublished", "no", "acked", "dropped", "dead"}

TypeOK ==
  /\ outgoing \in Seq(Message)
  /\ handler \in [Message -> HandlerPhases]
  /\ attempt \in [Message -> 0 .. MaxAttempts]
  /\ settled \in [Message -> Fates]
  /\ connected \in BOOLEAN
  /\ copies \in [Message -> Nat]
  /\ unsure \in [Message -> Nat]
  /\ failures \in [Message -> Nat]
  /\ faults \in 0 .. MaxFaults
  /\ ends \in 0 .. MaxEnds

Init ==
  /\ outgoing = <<>>
  /\ handler = [m \in Message |-> "none"]
  /\ attempt = [m \in Message |-> 0]
  /\ settled = [m \in Message |-> "unpublished"]
  /\ connected = FALSE
  /\ copies = [m \in Message |-> 0]
  /\ unsure = [m \in Message |-> 0]
  /\ failures = [m \in Message |-> 0]
  /\ faults = 0
  /\ ends = 0

Fails ==
  /\ faults < MaxFaults
  /\ faults' = faults + 1

Busy == {m \in Message : handler[m] # "none"}

Becomes(m, phase) == handler' = [handler EXCEPT ![m] = phase]

-----------------------------------------------------------------------------
(* The broker                                                              *)

\* publish_outgoing; the queue is durable and the message persistent.
PublishOutgoing(m) ==
  /\ settled[m] = "unpublished"
  /\ settled' = [settled EXCEPT ![m] = "no"]
  /\ outgoing' = Append(outgoing, m)
  /\ UNCHANGED <<handler, attempt, connected, history, faults, ends>>

\* run: the sender connects and consumes.
Run ==
  /\ ~connected
  /\ connected' = TRUE
  /\ UNCHANGED <<outgoing, handler, attempt, settled, history, faults, ends>>

\* Bug: the attempts of an earlier delivery count.
ReceiveCountsOn ==
  LET m == Head(outgoing)
  IN /\ connected
     /\ outgoing # <<>>
     /\ Cardinality(Busy) < Prefetch
     /\ outgoing' = Tail(outgoing)
     /\ Becomes(m, IF m \in Malformed         THEN "nack"
                   ELSE IF m \in OtherChannel THEN "drop"
                   ELSE IF m \in Pinned       THEN "send" ELSE "resolve")
     /\ failures' = [failures EXCEPT ![m] = 0]
     /\ UNCHANGED <<attempt, settled, connected, copies, unsure, faults, ends>>

\* The next message is delivered and looked at.
Receive ==
  LET m == Head(outgoing)
  IN /\ connected
     /\ outgoing # <<>>
     /\ Cardinality(Busy) < Prefetch
     /\ outgoing' = Tail(outgoing)
     /\ Becomes(m, IF m \in Malformed         THEN "nack"
                   ELSE IF m \in OtherChannel THEN "drop"
                   ELSE IF m \in Pinned       THEN "send" ELSE "resolve")
     /\ attempt' = [attempt EXCEPT ![m] = 0]
     /\ failures' = [failures EXCEPT ![m] = 0]
     /\ UNCHANGED <<settled, connected, copies, unsure, faults, ends>>

\* The orders in which the elements of S can be put back into a queue.
Orders(S) == {s \in [1 .. Cardinality(S) -> S] :
                \A i, j \in DOMAIN s : i # j => s[i] # s[j]}

\* Bug: what was delivered is taken for acknowledged (no_ack).
NotRequeued == UNCHANGED outgoing

Requeued == \E s \in Orders(Busy) : outgoing' = s \o outgoing

\* The process dies, or sender.stop closes the connection: the callbacks are
\* gone and the broker puts back what was not acknowledged.
ProcessEnds ==
  /\ ends < MaxEnds
  /\ connected
  /\ ends' = ends + 1
  /\ connected' = FALSE
  /\ Requeued
  /\ unsure' = [m \in Message |->
       IF handler[m] = "ack" THEN unsure[m] + 1 ELSE unsure[m]]
  /\ handler' = [m \in Message |-> "none"]
  /\ UNCHANGED <<attempt, settled, copies, failures, faults>>

-----------------------------------------------------------------------------
(* _on_message                                                             *)

\* _resolve_chat_id, _lookup_chat_id.
Resolve(m) ==
  /\ handler[m] = "resolve"
  /\ Becomes(m, IF m \in Unreachable THEN "drop" ELSE "send")
  /\ UNCHANGED <<outgoing, attempt, settled, connected, history, faults, ends>>

\* The database raised, outside of any try: the delivery stays unacknowledged.
ResolveFails(m) ==
  /\ handler[m] = "resolve"
  /\ Fails
  /\ Becomes(m, "stuck")
  /\ UNCHANGED <<outgoing, attempt, settled, connected, history, ends>>

\* Bug: the loop over the attempts is not left.
SendAgain(m) ==
  /\ handler[m] = "send"
  /\ copies' = [copies EXCEPT ![m] = @ + 1]
  /\ attempt' = [attempt EXCEPT ![m] = @ + 1]
  /\ Becomes(m, IF attempt'[m] < MaxAttempts THEN "send" ELSE "ack")
  /\ UNCHANGED <<outgoing, settled, connected, unsure, failures, faults, ends>>

\* Telegram accepted it.
SendSucceeds(m) ==
  /\ handler[m] = "send"
  /\ copies' = [copies EXCEPT ![m] = @ + 1]
  /\ Becomes(m, "ack")
  /\ UNCHANGED <<outgoing, attempt, settled, connected, unsure, failures,
                 faults, ends>>

\* for attempt in range(_MAX_SEND_ATTEMPTS): each failure is followed by a
\* pause; the one after the last is not told apart from the wait for the nack.
CountAttempt(m) ==
  /\ attempt' = [attempt EXCEPT ![m] = @ + 1]
  /\ Becomes(m, IF attempt'[m] < MaxAttempts THEN "pause" ELSE "nack")

\* After an error the message may have arrived all the same.
PerhapsArrived(m) ==
  \/ UNCHANGED <<copies, unsure>>
  \/ /\ copies' = [copies EXCEPT ![m] = @ + 1]
     /\ unsure' = [unsure EXCEPT ![m] = @ + 1]

\* TelegramRetryAfter or TelegramNetworkError.
SendFails(m) ==
  /\ handler[m] = "send"
  /\ Fails
  /\ failures' = [failures EXCEPT ![m] = @ + 1]
  /\ PerhapsArrived(m)
  /\ CountAttempt(m)
  /\ UNCHANGED <<outgoing, settled, connected, ends>>

PauseEnds(m) ==
  /\ handler[m] = "pause"
  /\ Becomes(m, "send")
  /\ UNCHANGED <<outgoing, attempt, settled, connected, history, faults, ends>>

\* Any other TelegramAPIError is final.
SendRefused(m) ==
  /\ handler[m] = "send"
  /\ Fails
  /\ failures' = [failures EXCEPT ![m] = @ + MaxAttempts]
  /\ Becomes(m, "nack")
  /\ UNCHANGED <<outgoing, attempt, settled, connected, copies, unsure, ends>>

\* What no except clause catches, an answer that cannot be decoded say: the
\* callback is over and the delivery stays unacknowledged.
SendRaises(m) ==
  /\ handler[m] = "send"
  /\ Fails
  /\ PerhapsArrived(m)
  /\ Becomes(m, "stuck")
  /\ UNCHANGED <<outgoing, attempt, settled, connected, failures, ends>>

\* Bug: a message that is not for Telegram is left unacknowledged.
SettleOwn(m) ==
  /\ handler[m] \in {"ack", "nack"}
  /\ settled' = [settled EXCEPT ![m] = IF handler[m] = "ack" THEN "acked"
                                       ELSE "dead"]
  /\ Becomes(m, "none")
  /\ UNCHANGED <<outgoing, attempt, connected, history, faults, ends>>

\* ack, or nack without requeueing.
Settle(m) ==
  /\ handler[m] \in {"ack", "drop", "nack"}
  /\ settled' = [settled EXCEPT ![m] = CASE handler[m] = "ack"  -> "acked"
                                         [] handler[m] = "drop" -> "dropped"
                                         [] handler[m] = "nack" -> "dead"]
  /\ Becomes(m, "none")
  /\ UNCHANGED <<outgoing, attempt, connected, history, faults, ends>>

CallbackStep(m) ==
  \/ Resolve(m)
  \/ SendSucceeds(m) \/ SendFails(m) \/ SendRefused(m) \/ PauseEnds(m)
  \/ Settle(m)

Next ==
  \/ \E m \in Message : \/ PublishOutgoing(m) \/ CallbackStep(m)
                        \/ ResolveFails(m) \/ SendRaises(m)
  \/ Run \/ Receive
  \/ ProcessEnds

\* The process is started, the broker delivers, Telegram and the database
\* answer.
Spec ==
  /\ Init /\ [][Next]_vars
  /\ WF_vars(Run) /\ WF_vars(Receive)
  /\ \A m \in Message : WF_vars(CallbackStep(m))

-----------------------------------------------------------------------------
(* Properties                                                              *)

\* Whatever fails and however often the process ends, a published message is
\* in the queue, or in the hands of a callback, or it was settled for a
\* reason: accepted by Telegram, not for Telegram, or dead-lettered
\* (_on_message).
NothingLost ==
  \A m \in Message :
    CASE settled[m] = "no"      -> \/ m \in Busy
                                   \/ \E i \in DOMAIN outgoing : outgoing[i] = m
      [] settled[m] = "acked"   -> copies[m] > 0
      [] settled[m] = "dropped" -> m \in OtherChannel \union Unreachable
      [] OTHER                  -> TRUE

\* A person sees a message twice only when an answer of Telegram or an
\* acknowledgement was lost: retries and redeliveries by themselves send
\* nothing again.
CopiesExplained == \A m \in Message : copies[m] <= 1 + unsure[m]

\* A message is given up only after Telegram refused it or it failed
\* MaxAttempts times ("after 3 failures", sender.py).
GivenUpLate ==
  \A m \in Message \ Malformed :
    settled[m] = "dead" => failures[m] >= MaxAttempts

Stuck == {m \in Message : handler[m] = "stuck"}

\* Every published message is settled, unless its own callback raised or so
\* many have raised that the prefetch limit is used up.
EveryMessageSettles ==
  \A m \in Message :
    settled[m] = "no" ~> settled[m] # "no" \/ m \in Stuck
                           \/ Cardinality(Stuck) = Prefetch

\* "retries only network / rate-limit errors, after 3 failures - nack into
\* DLQ" (sender.py): a message that is received is settled in the end.
ReceivedIsSettled ==
  \A m \in Message : m \in Busy ~> settled[m] # "no"
=============================================================================
