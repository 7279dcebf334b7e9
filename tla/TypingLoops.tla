---------------------------- MODULE TypingLoops ----------------------------
(***************************************************************************)
(* The typing indicator: the start and stop events a Worker publishes      *)
(* around every turn, the callbacks of TGSender that handle them, and the  *)
(* typing loops of TelegramTypingIndicator, one per chat.                  *)
(*                                                                         *)
(* A turn is one batch of one person.  Several people may have turns in    *)
(* the same group at once; those of a direct chat follow each other, since *)
(* a turn is made under the lock of its user.  A callback that looks up    *)
(* the chat in the database can be overtaken by another.                   *)
(***************************************************************************)
EXTENDS Integers, FiniteSets, Sequences

CONSTANTS
  Turn,
  Chat,
  ChatOf,        \* ChatOf[t]: the Telegram chat turn t belongs to
  Pinned,        \* turns whose events name the chat
  Unreachable,   \* turns whose user has no telegram_id (any more)
  OtherChannel,  \* turns of another channel than telegram
  Prefetch,      \* _PREFETCH_COUNT
  MaxFaults,     \* bounds the failures
  MaxEnds        \* bounds the ends of the process

ASSUME TypingAssumption ==
  /\ ChatOf \in [Turn -> Chat]
  /\ Pinned \union OtherChannel \subseteq Turn
  /\ Unreachable \subseteq Turn \ Pinned
  /\ Prefetch \in Nat \ {0}
  /\ {MaxFaults, MaxEnds} \subseteq Nat

VARIABLES
  turn,      \* turn[t]: how far the Worker is
  typing,    \* typing_events, what is ready in it
  inHand,    \* the events that are delivered and not acknowledged
  loop,      \* loop[c]: the task of chat c in _tasks
  (* history *)
  started,   \* turns whose start event this process handled
  stopped,   \* turns whose stop event was handled, or will never come
  misled,    \* chats whose stop event was lost or came before its start
  faults,
  ends

history == <<started, stopped, misled>>
vars == <<turn, typing, inHand, loop, history, faults, ends>>

-----------------------------------------------------------------------------

\* typing: the answer is generated; over: in the finally of _process_batch.
TurnPhases == {"idle", "typing", "over", "done"}

Event == [turn: Turn, action: {"start", "stop"}]

\* waiting: the chat id is looked up; stuck: the callback raised.
InHand == [event: Event, phase: {"waiting", "stuck"}]

TypeOK ==
  /\ turn \in [Turn -> TurnPhases]
  /\ typing \in Seq(Event)
  /\ inHand \subseteq InHand /\ Cardinality(inHand) <= Prefetch
  /\ loop \in [Chat -> {"off", "running", "broken"}]
  /\ started \subseteq Turn
  /\ stopped \subseteq Turn
  /\ misled \subseteq Chat
  /\ faults \in 0 .. MaxFaults
  /\ ends \in 0 .. MaxEnds

Init ==
  /\ turn = [t \in Turn |-> "idle"]
  /\ typing = <<>>
  /\ inHand = {}
  /\ loop = [c \in Chat |-> "off"]
  /\ started = {}
  /\ stopped = {}
  /\ misled = {}
  /\ faults = 0
  /\ ends = 0

Fails ==
  /\ faults < MaxFaults
  /\ faults' = faults + 1

Mates(t) == {u \in Turn \ {t} : ChatOf[u] = ChatOf[t]}

-----------------------------------------------------------------------------
(* The Worker                                                              *)

Announces(t, action) ==
  /\ typing' = Append(typing, [turn |-> t, action |-> action])
  /\ UNCHANGED faults

\* _process_batch, once it has the lock.  An error of the broker is swallowed
\* by _publish_typing.
StartTurn(t) ==
  /\ turn[t] = "idle"
  /\ t \in Pinned \/ \A u \in Mates(t) : turn[u] \in {"idle", "done"}
  /\ \/ Announces(t, "start")
     \/ Fails /\ UNCHANGED typing
  /\ turn' = [turn EXCEPT ![t] = "typing"]
  /\ UNCHANGED <<inHand, loop, history, ends>>

\* Bug: the stop event is published after the try, not in its finally.
TurnEndsSilently(t) ==
  /\ turn[t] = "typing"
  /\ turn' = [turn EXCEPT ![t] = "done"]
  /\ UNCHANGED <<typing, inHand, loop, history, faults, ends>>

\* _run_locked returns or raises.
TurnEnds(t) ==
  /\ turn[t] = "typing"
  /\ turn' = [turn EXCEPT ![t] = "over"]
  /\ UNCHANGED <<typing, inHand, loop, history, faults, ends>>

\* The finally of _process_batch.
StopTurn(t) ==
  /\ turn[t] = "over"
  /\ \/ Announces(t, "stop") /\ UNCHANGED <<stopped, misled>>
     \/ /\ Fails
        /\ stopped' = stopped \union {t}
        /\ misled' = misled \union {ChatOf[t]}
        /\ UNCHANGED typing
  /\ turn' = [turn EXCEPT ![t] = "done"]
  /\ UNCHANGED <<inHand, loop, started, ends>>

-----------------------------------------------------------------------------
(* TelegramTypingIndicator                                                 *)

\* Bug: an event of a chat that shows typing ends it.
Toggled(event) ==
  LET c == ChatOf[event.turn]
  IN [loop EXCEPT ![c] = IF @ = "off" THEN "running" ELSE "off"]

\* start does nothing when the chat has a task, a finished one included; stop
\* removes the task and awaits its end.
Applied(event) ==
  LET c == ChatOf[event.turn]
  IN [loop EXCEPT ![c] = IF event.action = "stop" THEN "off"
                         ELSE IF @ = "off" THEN "running" ELSE @]

\* To await a task that ended with an exception raises it.
Raises(event) == event.action = "stop" /\ loop[ChatOf[event.turn]] = "broken"

Handle(event) ==
  LET t == event.turn
  IN /\ loop' = Applied(event)
     /\ IF event.action = "start"
        THEN /\ started' = started \union {t}
             /\ misled' = IF t \in stopped THEN misled \union {ChatOf[t]}
                          ELSE misled
             /\ UNCHANGED stopped
        ELSE /\ stopped' = stopped \union {t}
             /\ UNCHANGED <<started, misled>>

\* Something that is not a TelegramAPIError ends the loop of a chat.
LoopBreaks(c) ==
  /\ loop[c] = "running"
  /\ Fails
  /\ loop' = [loop EXCEPT ![c] = "broken"]
  /\ UNCHANGED <<turn, typing, inHand, history, ends>>

-----------------------------------------------------------------------------
(* TGSender._on_typing                                                     *)

\* Bug: one event at a time.
OneAtATime == inHand = {}

\* set_qos.
HasRoom == Cardinality(inHand) < Prefetch

Stuck(event) == [event |-> event, phase |-> "stuck"]

\* An event that names its chat is handled as soon as it is delivered; one of
\* another channel is acknowledged at once.
OnTyping ==
  LET event == Head(typing)
      t     == event.turn
  IN /\ typing # <<>>
     /\ HasRoom
     /\ typing' = Tail(typing)
     /\ \/ /\ t \in OtherChannel
           /\ UNCHANGED <<inHand, loop, history>>
        \/ /\ t \in Pinned \ OtherChannel
           /\ Handle(event)
           /\ inHand' = IF Raises(event) THEN inHand \union {Stuck(event)}
                        ELSE inHand
        \/ /\ t \notin Pinned \union OtherChannel
           /\ inHand' = inHand \union {[event |-> event, phase |-> "waiting"]}
           /\ UNCHANGED <<loop, history>>
     /\ UNCHANGED <<turn, faults, ends>>

\* _lookup_chat_id answers: the chat id is known, or there is none.
Resolved(h) ==
  /\ h.phase = "waiting"
  /\ IF h.event.turn \in Unreachable
     THEN inHand' = inHand \ {h} /\ UNCHANGED <<loop, history>>
     ELSE /\ Handle(h.event)
          /\ inHand' = (inHand \ {h}) \union
               (IF Raises(h.event) THEN {Stuck(h.event)} ELSE {})
  /\ UNCHANGED <<turn, typing, faults, ends>>

\* The database raises: the event stays unacknowledged.
LookupFails(h) ==
  /\ h.phase = "waiting"
  /\ Fails
  /\ inHand' = (inHand \ {h}) \union {Stuck(h.event)}
  /\ misled' = IF h.event.action = "stop"
               THEN misled \union {ChatOf[h.event.turn]} ELSE misled
  /\ UNCHANGED <<turn, typing, loop, started, stopped, ends>>

\* The orders in which the elements of S can be put back into a queue.
Orders(S) == {s \in [1 .. Cardinality(S) -> S] :
                \A i, j \in DOMAIN s : i # j => s[i] # s[j]}

\* The process, which runs the Worker and the sender, dies or is restarted:
\* the loops end, the broker puts back what was not acknowledged.  A turn that
\* was going on has no stop event; its batch makes another turn.
ProcessEnds ==
  /\ ends < MaxEnds
  /\ ends' = ends + 1
  /\ turn' = [t \in Turn |-> IF turn[t] = "idle" THEN "idle" ELSE "done"]
  /\ stopped' = stopped \union {t \in Turn : turn[t] \in {"typing", "over"}}
  /\ \E s \in Orders({h.event : h \in inHand}) : typing' = s \o typing
  /\ inHand' = {}
  /\ loop' = [c \in Chat |-> "off"]
  /\ started' = {}
  /\ UNCHANGED <<misled, faults>>

SenderStep == OnTyping \/ \E h \in inHand : Resolved(h)

Next ==
  \/ \E t \in Turn : StartTurn(t) \/ TurnEnds(t) \/ StopTurn(t)
  \/ SenderStep
  \/ \E h \in inHand : LookupFails(h)
  \/ \E c \in Chat : LoopBreaks(c)
  \/ ProcessEnds

\* The broker delivers, the database answers, a turn ends (its requests have
\* timeouts) and its finally is executed.
Spec ==
  /\ Init /\ [][Next]_vars
  /\ WF_vars(SenderStep)
  /\ \A t \in Turn : WF_vars(TurnEnds(t) \/ StopTurn(t))

-----------------------------------------------------------------------------
(* Properties                                                              *)

\* No turn of the chat is going on, and none of its events is under way.
Quiet(c) ==
  /\ \A t \in Turn : ChatOf[t] = c => turn[t] \in {"idle", "done"}
  /\ \A i \in DOMAIN typing : ChatOf[typing[i].turn] # c
  /\ \A h \in inHand : ChatOf[h.event.turn] # c

\* No chat shows typing for ever: when the last turn of a chat is over and its
\* events are handled its loop has ended, however the turns of several people
\* overlapped; unless a stop event was lost, or was handled before its start
\* because the lookup of the start took longer or the start was delivered
\* again (_process_batch, TelegramTypingIndicator).
TypingEnds ==
  \A c \in Chat \ misled : Quiet(c) => loop[c] # "running"

\* While a turn goes on whose start was handled, its chat has a loop, or
\* somebody else's turn in the same chat has ended it.
ShownWhileTyping ==
  \A t \in started \ stopped :
    loop[ChatOf[t]] = "off" => \E u \in Mates(t) : u \in stopped

\* The stop event of every turn is handled, or never published; unless its
\* callback raised, the user is unreachable, it is not for Telegram, or
\* Prefetch callbacks have raised and nothing is delivered any more.
EveryStopHandled ==
  \A t \in Turn \ (Unreachable \union OtherChannel) :
    turn[t] = "typing" ~> \/ t \in stopped
                          \/ Stuck([turn |-> t, action |-> "stop"]) \in inHand
                          \/ Cardinality({h \in inHand : h.phase = "stuck"}) = Prefetch

\* "Published by Worker while generating, consumed by channel senders to show
\* typing status" (TypingEvent): a turn is shown until its own stop event.
ShownUntilItsStop ==
  \A t \in started \ stopped : loop[ChatOf[t]] # "off"
=============================================================================
