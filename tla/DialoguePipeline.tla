-------------------------- MODULE DialoguePipeline --------------------------
(***************************************************************************)
(* The way of a user's message through Nodya: the incoming_messages queue, *)
(* the debounce buffers and flush tasks of the Worker, the user lock, the  *)
(* nodya:scheduled ZSet with its poller, and the dead-letter queue.  The   *)
(* Worker is one asyncio process: a step is what it does between two       *)
(* awaits that another step can disturb.                                   *)
(*                                                                         *)
(* Messages are numbered in the order the gateway publishes them.  Pairing *)
(* and /feed commands never enter the debounce buffer and are not here.    *)
(***************************************************************************)
EXTENDS Integers, Sequences, FiniteSets, Functions

CONSTANTS
  NMessages,   \* how many messages the users send (bounds the model)
  Malformed,   \* the numbers of those that do not parse
  User,        \* external user ids
  Chat,        \* chats the messages come from
  UserOf,      \* [Message -> User]: user_external_id
  ChatOf,      \* [Message -> Chat]: chat_external_id
  Task,        \* slots for concurrent flush tasks (bounds the model)
  Prefetch,    \* _PREFETCH_COUNT
  MaxRetries,  \* MAX_SCHEDULED_RETRIES
  FaultKinds,  \* the faults that may happen
  MaxFaults,   \* how many of them (bounds the model)
  Nobody,      \* the lock key is absent
  Poller,      \* token of the scheduled poller
  Sleeper,     \* token of a consolidation run
  Orphan       \* token whose holder is gone

Message == 1 .. NMessages
Faults == {"crash", "stop", "reconnect", "failure", "redis", "expiry"}
Holder == Task \union {Poller, Sleeper}

ASSUME BoundAssumption ==
  /\ NMessages \in Nat
  /\ Prefetch \in Nat \ {0}
  /\ MaxRetries \in Nat
  /\ MaxFaults \in Nat
ASSUME MessageAssumption ==
  /\ UserOf \in [Message -> User]
  /\ ChatOf \in [Message -> Chat]
  /\ Malformed \subseteq Message
  /\ FaultKinds \subseteq Faults
ASSUME TokenAssumption ==
  /\ Poller \notin Task
  /\ Sleeper \notin Task \union {Poller}
  /\ Orphan \notin Holder
  /\ Nobody \notin Holder \union {Orphan}

VARIABLES
  (* RabbitMQ *)
  broker,      \* broker[m]: where the incoming queue has m
  deliveries,  \* deliveries[m]: how often m was delivered, the last tag
  dlq,         \* the messages in nodya_dlq
  (* Redis *)
  lock,        \* lock[u]: whose token nodya:lock has
  scheduled,   \* the nodya:scheduled ZSet
  (* the process *)
  running,     \* Worker._running
  task,        \* the flush tasks with their batches
  poller,      \* the poller task and the entry it works on
  due,         \* the entries popped and not yet processed
  (* history *)
  replies,     \* replies[m]: the chats replies to m were published to
  skipped,     \* the messages left unanswered on purpose
  parked,      \* the messages that were ever put into the ZSet
  faults       \* faults so far

brokerVars  == <<broker, deliveries>>
processVars == <<running, task, poller, due>>
outcomeVars == <<replies, skipped>>
vars == <<brokerVars, dlq, lock, scheduled, processVars, outcomeVars, parked,
          faults>>

-----------------------------------------------------------------------------
(* Data                                                                    *)

\* An AMQP delivery; the tag tells it from earlier deliveries of the message.
Delivery == [msg: Message, tag: Nat]

\* A ScheduledEnvelope: a batch postponed retry + 1 times, or the reply to one.
\* Two envelopes of one batch and retry are one ZSet member, as their JSON is
\* the same; two replies to one batch differ in text and time, which retry
\* stands for.
Envelope ==
  [kind: {"incoming", "outgoing"}, msgs: Seq(Message), retry: Nat]
Incoming(ms, n) == [kind |-> "incoming", msgs |-> ms, retry |-> n]
Outgoing(ms, n) == [kind |-> "outgoing", msgs |-> ms, retry |-> n]
NoEnvelope      == Outgoing(<<>>, 0)

\* debounce: _flush_after_debounce sleeps, the batch is in _buffers;
\* acquire: in _process_batch, before acquire_lock; locked: in _run_locked;
\* answered: its reply is out, the lock not yet released; acking, nacking:
\* the loops over amqp_messages.
TaskPhases ==
  {"idle", "debounce", "acquire", "locked", "answered", "acking", "nacking"}
Idle == [phase |-> "idle", batch |-> <<>>]

\* sleep: between two polls; work: in the loop over due; dead: the task
\* has ended with an exception.
PollerPhases == {"sleep", "work", "locked", "answered", "dead"}
Asleep == [phase |-> "sleep", env |-> NoEnvelope]

Msgs(batch) == [i \in DOMAIN batch |-> batch[i].msg]

\* The lock is that of the first message's sender (dtos[0]).
TaskUser(t) == UserOf[task[t].batch[1].msg]
EnvUser(e)  == UserOf[e.msgs[1]]

TypeOK ==
  /\ broker \in [Message -> {"unsent", "queued", "unacked", "gone"}]
  /\ deliveries \in [Message -> Nat]
  /\ dlq \in SUBSET Message
  /\ lock \in [User -> Holder \union {Orphan, Nobody}]
  /\ scheduled \in SUBSET Envelope
  /\ running \in BOOLEAN
  /\ task \in [Task -> [phase: TaskPhases, batch: Seq(Delivery)]]
  /\ poller \in [phase: PollerPhases, env: Envelope]
  /\ due \in SUBSET Envelope
  /\ replies \in [Message -> Seq(Chat)]
  /\ skipped \in SUBSET Message
  /\ parked \in SUBSET Message
  /\ faults \in Nat

Init ==
  /\ broker = [m \in Message |-> "unsent"]
  /\ deliveries = [m \in Message |-> 0]
  /\ dlq = {}
  /\ lock = [u \in User |-> Nobody]
  /\ scheduled = {}
  /\ running = TRUE
  /\ task = [t \in Task |-> Idle]
  /\ poller = Asleep
  /\ due = {}
  /\ replies = [m \in Message |-> <<>>]
  /\ skipped = {}
  /\ parked = {}
  /\ faults = 0

\* A fault of this kind happens.
Fault(kind) ==
  /\ kind \in FaultKinds
  /\ faults < MaxFaults
  /\ faults' = faults + 1

-----------------------------------------------------------------------------
(* From the gateway into the debounce buffer                               *)

\* publish_incoming.
Accept(m) ==
  /\ broker[m] = "unsent"
  /\ \A k \in Message : k < m => broker[k] # "unsent"
  /\ broker' = [broker EXCEPT ![m] = "queued"]
  /\ UNCHANGED <<deliveries, dlq, lock, scheduled, processVars, outcomeVars,
                 parked, faults>>

\* The consumer connection is open: stop() has not closed it, or has failed
\* before it could.
Consuming == running \/ poller.phase = "dead"

\* RabbitMQ delivers the oldest message; a requeued one has its old place.
Delivers(m) ==
  /\ Consuming
  /\ broker[m] = "queued"
  /\ \A k \in Message : k < m => broker[k] # "queued"
  /\ Cardinality({k \in Message : broker[k] = "unacked"}) < Prefetch
  /\ deliveries' = [deliveries EXCEPT ![m] = @ + 1]

\* _buffers[user] as a set of at most one task.
Buffering(u) == {t \in Task : task[t].phase = "debounce" /\ TaskUser(t) = u}

\* _on_message: join the open batch of the sender, or open one and start
\* its timer.
OnMessage(m, t) ==
  /\ m \notin Malformed
  /\ Delivers(m)
  /\ \/ t \in Buffering(UserOf[m])
     \/ task[t].phase = "idle" /\ Buffering(UserOf[m]) = {}
  /\ broker' = [broker EXCEPT ![m] = "unacked"]
  /\ task' = [task EXCEPT ![t] =
       [phase |-> "debounce",
        batch |-> Append(@.batch, [msg |-> m, tag |-> deliveries[m] + 1])]]
  /\ UNCHANGED <<dlq, lock, scheduled, running, poller, due, outcomeVars,
                 parked, faults>>

\* _on_message on a payload that does not parse: nack(requeue=False).
OnMalformed(m) ==
  /\ m \in Malformed
  /\ Delivers(m)
  /\ broker' = [broker EXCEPT ![m] = "gone"]
  /\ dlq' = dlq \union {m}
  /\ UNCHANGED <<lock, scheduled, processVars, outcomeVars, parked, faults>>

\* The silence window is over: the batch leaves _buffers.
DebounceFires(t) ==
  /\ running
  /\ task[t].phase = "debounce"
  /\ task' = [task EXCEPT ![t].phase = "acquire"]
  /\ UNCHANGED <<brokerVars, dlq, lock, scheduled, running, poller, due,
                 outcomeVars, parked, faults>>

\* The same in a stopped Worker that still consumes: the flush returns and the
\* deliveries stay unacknowledged.
FlushIgnored(t) ==
  /\ ~running
  /\ task[t].phase = "debounce"
  /\ task' = [task EXCEPT ![t] = Idle]
  /\ UNCHANGED <<brokerVars, dlq, lock, scheduled, running, poller, due,
                 outcomeVars, parked, faults>>

-----------------------------------------------------------------------------
(* What a flushed batch and the poller share                               *)

\* Bug: SET without NX.
TakeAnyway(u, h) == lock' = [lock EXCEPT ![u] = h]

\* acquire_lock by h.
Take(u, h) ==
  /\ lock[u] = Nobody
  /\ lock' = [lock EXCEPT ![u] = h]

\* release_lock by h, which deletes the key only while it has h's token.
GiveBack(u, h) ==
  lock' = IF lock[u] = h THEN [lock EXCEPT ![u] = Nobody] ELSE lock

\* release_lock raised: the key stays until its ttl runs out.
LeaveBehind(u, h) ==
  lock' = IF lock[u] = h THEN [lock EXCEPT ![u] = Orphan] ELSE lock

\* The SET took effect, acquire_lock raised.
TakeUnknowing(u) ==
  /\ lock[u] = Nobody
  /\ lock' = [lock EXCEPT ![u] = Orphan]

\* _defer_incoming, up to its ack loop.
Defer(ms, retry) ==
  IF retry >= MaxRetries
  THEN /\ dlq' = dlq \union Range(ms)
       /\ UNCHANGED <<scheduled, parked>>
  ELSE /\ scheduled' = scheduled \union {Incoming(ms, retry)}
       /\ parked' = parked \union Range(ms)
       /\ UNCHANGED dlq

\* One reply for the whole batch, to the chat of its first message.
PublishReply(ms) ==
  /\ replies' = [m \in Message |-> IF m \in Range(ms)
                                   THEN Append(replies[m], ChatOf[ms[1]])
                                   ELSE replies[m]]
  /\ UNCHANGED <<skipped, scheduled, parked>>

\* n tells this reply from those to the same batch that are in the ZSet.
NewReply(ms, n) ==
  /\ Outgoing(ms, n) \notin scheduled
  /\ \A k \in 0 .. n - 1 : Outgoing(ms, k) \in scheduled

\* _deliver with a delay_until in the future.
ParkReply(ms) ==
  /\ \E n \in 0 .. Cardinality(scheduled) :
       NewReply(ms, n) /\ scheduled' = scheduled \union {Outgoing(ms, n)}
  /\ parked' = parked \union Range(ms)
  /\ UNCHANGED <<replies, skipped>>

\* The proactive decision "skip".
SkipReply(ms) ==
  /\ skipped' = skipped \union Range(ms)
  /\ UNCHANGED <<replies, scheduled, parked>>

\* _run_locked: the proactive decision is random.
RunLocked(ms) == PublishReply(ms) \/ ParkReply(ms) \/ SkipReply(ms)

-----------------------------------------------------------------------------
(* A flushed batch                                                         *)

InPhase(t, from, to) ==
  /\ task[t].phase = from
  /\ task' = [task EXCEPT ![t].phase = to]
  /\ UNCHANGED <<running, poller, due>>

AcquireLock(t) ==
  /\ InPhase(t, "acquire", "locked")
  /\ Take(TaskUser(t), t)
  /\ UNCHANGED <<brokerVars, dlq, scheduled, outcomeVars, parked, faults>>

DeferBusy(t) ==
  /\ InPhase(t, "acquire", "acking")
  /\ lock[TaskUser(t)] # Nobody
  /\ Defer(Msgs(task[t].batch), 0)
  /\ UNCHANGED <<brokerVars, lock, outcomeVars, faults>>

Answer(t) ==
  /\ InPhase(t, "locked", "answered")
  /\ RunLocked(Msgs(task[t].batch))
  /\ UNCHANGED <<brokerVars, dlq, lock, faults>>

ReleaseLock(t) ==
  /\ InPhase(t, "answered", "acking")
  /\ GiveBack(TaskUser(t), t)
  /\ UNCHANGED <<brokerVars, dlq, scheduled, outcomeVars, parked, faults>>

\* An exception in _process_batch: _flush_after_debounce starts to nack.
\* The finally has released the lock, unless release_lock raised as well.
BatchFails(t) ==
  /\ Fault("failure")
  /\ \/ InPhase(t, "acquire", "nacking") /\ UNCHANGED lock
     \/ InPhase(t, "acquire", "nacking") /\ TakeUnknowing(TaskUser(t))
     \/ /\ InPhase(t, "locked", "nacking") \/ InPhase(t, "answered", "nacking")
        /\ GiveBack(TaskUser(t), t) \/ LeaveBehind(TaskUser(t), t)
  /\ UNCHANGED <<brokerVars, dlq, scheduled, outcomeVars, parked>>

\* push_scheduled or publish_dead_letter raised, but took effect.
DeferUnknowing(t) ==
  /\ Fault("failure")
  /\ InPhase(t, "acquire", "nacking")
  /\ lock[TaskUser(t)] # Nobody
  /\ Defer(Msgs(task[t].batch), 0)
  /\ UNCHANGED <<brokerVars, lock, outcomeVars>>

\* The channel still knows the delivery.
Valid(d) == broker[d.msg] = "unacked" /\ deliveries[d.msg] = d.tag

Rest(t) ==
  IF Len(task[t].batch) = 1
  THEN Idle
  ELSE [task[t] EXCEPT !.batch = Tail(@)]

\* The next ack or nack of the loop.  On a delivery the channel no longer
\* knows it raises; so does the nack the except branch then starts with, and
\* the task ends.
Settles(t, phase) ==
  LET d == task[t].batch[1]
  IN /\ task[t].phase = phase
     /\ task' = [task EXCEPT ![t] = IF Valid(d) THEN Rest(t) ELSE Idle]
     /\ broker' = IF Valid(d) THEN [broker EXCEPT ![d.msg] = "gone"]
                              ELSE broker

AckNext(t) ==
  /\ Settles(t, "acking")
  /\ UNCHANGED <<deliveries, dlq, lock, scheduled, running, poller, due,
                 outcomeVars, parked, faults>>

\* Bug: the queue has no dead-letter exchange.
NackDiscards(t) ==
  /\ Settles(t, "nacking")
  /\ UNCHANGED <<deliveries, dlq, lock, scheduled, running, poller, due,
                 outcomeVars, parked, faults>>

NackNext(t) ==
  /\ Settles(t, "nacking")
  /\ dlq' = IF broker' = broker THEN dlq
                                ELSE dlq \union {task[t].batch[1].msg}
  /\ UNCHANGED <<deliveries, lock, scheduled, running, poller, due,
                 outcomeVars, parked, faults>>

-----------------------------------------------------------------------------
(* The scheduled poller                                                    *)

\* Bug: ZRANGEBYSCORE without ZREM.
PeekDue(S) ==
  /\ running
  /\ poller.phase = "sleep"
  /\ S # {}
  /\ due' = S
  /\ poller' = [poller EXCEPT !.phase = "work"]
  /\ UNCHANGED <<brokerVars, dlq, lock, scheduled, running, task, outcomeVars,
                 parked, faults>>

\* pop_due_scheduled: fetch and removal are one Lua script.  Which entries
\* are due depends on their delays: any.
PopDue(S) ==
  /\ running
  /\ poller.phase = "sleep"
  /\ S # {}
  /\ scheduled' = scheduled \ S
  /\ due' = S
  /\ poller' = [poller EXCEPT !.phase = "work"]
  /\ UNCHANGED <<brokerVars, dlq, lock, running, task, outcomeVars, parked,
                 faults>>

\* pop_due_scheduled raises outside the try of the loop: the task ends.
\* The script may have run (S) or not ({}).
PopFails(S) ==
  /\ Fault("redis")
  /\ running
  /\ poller.phase = "sleep"
  /\ scheduled' = scheduled \ S
  /\ poller' = [poller EXCEPT !.phase = "dead"]
  /\ UNCHANGED <<brokerVars, dlq, lock, running, task, due, outcomeVars,
                 parked>>

Picks(e) ==
  /\ poller.phase = "work"
  /\ e \in due
  /\ due' = due \ {e}
  /\ UNCHANGED <<running, task>>

\* _process_scheduled of a parked reply: its moment has come.
PollerDelivers(e) ==
  /\ Picks(e)
  /\ e.kind = "outgoing"
  /\ PublishReply(e.msgs)
  /\ UNCHANGED <<brokerVars, dlq, lock, poller, faults>>

PollerAcquires(e) ==
  /\ Picks(e)
  /\ e.kind = "incoming"
  /\ Take(EnvUser(e), Poller)
  /\ poller' = [phase |-> "locked", env |-> e]
  /\ UNCHANGED <<brokerVars, dlq, scheduled, outcomeVars, parked, faults>>

\* Bug: the retry is not counted.
PollerDefersUncounted(e) ==
  /\ Picks(e)
  /\ e.kind = "incoming"
  /\ lock[EnvUser(e)] # Nobody
  /\ Defer(e.msgs, e.retry)
  /\ UNCHANGED <<brokerVars, lock, poller, outcomeVars, faults>>

PollerDefers(e) ==
  /\ Picks(e)
  /\ e.kind = "incoming"
  /\ lock[EnvUser(e)] # Nobody
  /\ Defer(e.msgs, e.retry + 1)
  /\ UNCHANGED <<brokerVars, lock, poller, outcomeVars, faults>>

PollerAnswers ==
  /\ poller.phase = "locked"
  /\ RunLocked(poller.env.msgs)
  /\ poller' = [poller EXCEPT !.phase = "answered"]
  /\ UNCHANGED <<brokerVars, dlq, lock, running, task, due, faults>>

BackToWork == poller' = [phase |-> "work", env |-> NoEnvelope]

PollerReleases ==
  /\ poller.phase = "answered"
  /\ GiveBack(EnvUser(poller.env), Poller)
  /\ BackToWork
  /\ UNCHANGED <<brokerVars, dlq, scheduled, running, task, due, outcomeVars,
                 parked, faults>>

\* An exception in _process_scheduled is logged; the entry is gone.
PollerDrops(e) ==
  /\ Fault("failure")
  /\ Picks(e)
  /\ \/ UNCHANGED lock
     \/ e.kind = "incoming" /\ TakeUnknowing(EnvUser(e))
  /\ UNCHANGED <<brokerVars, dlq, scheduled, poller, outcomeVars, parked>>

PollerFails ==
  /\ Fault("failure")
  /\ poller.phase \in {"locked", "answered"}
  /\ \/ GiveBack(EnvUser(poller.env), Poller)
     \/ LeaveBehind(EnvUser(poller.env), Poller)
  /\ BackToWork
  /\ UNCHANGED <<brokerVars, dlq, scheduled, running, task, due, outcomeVars,
                 parked>>

PollerSleeps ==
  /\ poller.phase = "work"
  /\ due = {}
  /\ poller' = Asleep
  /\ UNCHANGED <<brokerVars, dlq, lock, scheduled, running, task, due,
                 outcomeVars, parked, faults>>

-----------------------------------------------------------------------------
(* The other holder of the lock, and the lock's ttl                        *)

onlyLock == <<brokerVars, dlq, scheduled, processVars, outcomeVars, parked>>

\* ConsolidationJob.run_user.
SleeperAcquires(u) ==
  /\ running
  /\ Take(u, Sleeper)
  /\ UNCHANGED <<onlyLock, faults>>

SleeperReleases(u) ==
  /\ lock[u] = Sleeper
  /\ GiveBack(u, Sleeper)
  /\ UNCHANGED <<onlyLock, faults>>

\* The ttl of a lock nobody will release runs out.
OrphanExpires(u) ==
  /\ lock[u] = Orphan
  /\ lock' = [lock EXCEPT ![u] = Nobody]
  /\ UNCHANGED <<onlyLock, faults>>

\* The ttl runs out under a holder that is still at work, or an account merge
\* deletes the key (UserLock!MergeDropsKey).
HolderOutlivesLock(u) ==
  /\ Fault("expiry")
  /\ lock[u] \in Holder
  /\ lock' = [lock EXCEPT ![u] = Nobody]
  /\ UNCHANGED onlyLock

-----------------------------------------------------------------------------
(* Crashes, shutdowns and lost connections                                 *)

\* Bugs: the connection is not closed; the consumer acks automatically.
NotRequeued  == broker
NothingKept  ==
  [m \in Message |-> IF broker[m] = "unacked" THEN "gone" ELSE broker[m]]

\* The broker takes back what was delivered and not acknowledged.
Requeued ==
  [m \in Message |-> IF broker[m] = "unacked" THEN "queued" ELSE broker[m]]

\* The process is gone and another one started: only RabbitMQ and Redis
\* remember.
NewProcess ==
  /\ broker' = Requeued
  /\ lock' = [u \in User |-> IF lock[u] = Nobody THEN Nobody ELSE Orphan]
  /\ running' = TRUE
  /\ task' = [t \in Task |-> Idle]
  /\ poller' = Asleep
  /\ due' = {}
  /\ UNCHANGED <<deliveries, dlq, scheduled, outcomeVars, parked>>

Crash == Fault("crash") /\ NewProcess

\* Worker.stop: timers and buffers are cleared, the poller is cancelled
\* (and, like a cancelled consolidation, gives its lock back), the consumer
\* connection is closed.  Batches already in _process_batch go on.  To await a
\* poller that has died raises its error, which leaves the connection open.
Stop ==
  /\ Fault("stop")
  /\ running
  /\ running' = FALSE
  /\ \/ poller.phase # "dead" /\ broker' = Requeued /\ poller' = Asleep
     \/ poller.phase = "dead" /\ UNCHANGED <<broker, poller>>
  /\ lock' = [u \in User |->
                IF lock[u] \in {Poller, Sleeper} THEN Nobody ELSE lock[u]]
  /\ task' = [t \in Task |->
                IF task[t].phase = "debounce" THEN Idle ELSE task[t]]
  /\ due' = {}
  /\ UNCHANGED <<deliveries, dlq, scheduled, outcomeVars, parked>>

\* The stopped process ends, which cuts off what it still did, and is started
\* again.
Restart == ~running /\ NewProcess /\ UNCHANGED faults

\* The consumer connection breaks and is re-established by connect_robust:
\* buffers and tasks keep deliveries whose channel is gone.
Reconnect ==
  /\ Fault("reconnect")
  /\ running
  /\ broker' = Requeued
  /\ UNCHANGED <<deliveries, dlq, lock, scheduled, processVars, outcomeVars,
                 parked>>

-----------------------------------------------------------------------------
Consume == \E m \in Message : OnMalformed(m) \/ \E t \in Task : OnMessage(m, t)

TaskStep(t) ==
  \/ DebounceFires(t)
  \/ FlushIgnored(t)
  \/ AcquireLock(t)
  \/ DeferBusy(t)
  \/ Answer(t)
  \/ ReleaseLock(t)
  \/ AckNext(t)
  \/ NackNext(t)

PollerStep ==
  \/ \E e \in due : PollerDelivers(e) \/ PollerAcquires(e) \/ PollerDefers(e)
  \/ PollerAnswers
  \/ PollerReleases
  \/ PollerSleeps

FaultStep ==
  \/ \E t \in Task : BatchFails(t) \/ DeferUnknowing(t)
  \/ \E S \in SUBSET scheduled : PopFails(S)
  \/ \E e \in due : PollerDrops(e)
  \/ PollerFails
  \/ \E u \in User : HolderOutlivesLock(u)
  \/ Crash
  \/ Stop
  \/ Reconnect

Next ==
  \/ \E m \in Message : Accept(m)
  \/ Consume
  \/ \E t \in Task : TaskStep(t)
  \/ \E S \in SUBSET scheduled : PopDue(S)
  \/ PollerStep
  \/ \E u \in User : SleeperAcquires(u) \/ SleeperReleases(u)
                     \/ OrphanExpires(u)
  \/ FaultStep
  \/ Restart

Spec == Init /\ [][Next]_vars

\* Some entry about m is popped.
PopAbout(m) ==
  \E S \in SUBSET scheduled : (\E e \in S : m \in Range(e.msgs)) /\ PopDue(S)

\* asyncio runs every ready task; sleeps end; an entry's score is fixed when
\* it is pushed and passes; the ttl of an orphaned lock passes; a
\* consolidation run ends; the process is started again.  Nobody has to send
\* a message and no fault has to happen.
Fairness ==
  /\ WF_vars(Consume)
  /\ \A t \in Task : WF_vars(TaskStep(t))
  /\ WF_vars(PollerStep)
  /\ \A m \in Message : SF_vars(PopAbout(m))
  /\ \A u \in User : WF_vars(SleeperReleases(u)) /\ WF_vars(OrphanExpires(u))
  /\ WF_vars(Restart)

FairSpec == Spec /\ Fairness

-----------------------------------------------------------------------------
(* Properties                                                              *)

\* Answered, left unanswered on purpose, or in the dead-letter queue.
Settled(m) == replies[m] # <<>> \/ m \in skipped \/ m \in dlq

\* Somebody still has m: the broker, a task, the ZSet or the poller.
Carried(m) ==
  \/ broker[m] \in {"queued", "unacked"}
  \/ \E t \in Task : m \in Range(Msgs(task[t].batch))
  \/ \E e \in scheduled \union due \union {poller.env} : m \in Range(e.msgs)

FateOf(m) ==
  CASE broker[m] = "unsent" -> "unsent"
    [] broker[m] # "unsent" /\ Settled(m) -> "settled"
    [] broker[m] # "unsent" /\ ~Settled(m) /\ Carried(m) -> "pending"
    [] OTHER -> "lost"

\* The pipeline keeps the promise of MessageFate: settled is for ever, and
\* only what was handed over to the ZSet can be lost (ADR-12: messages that
\* were not ACKed are redelivered).
Fate == INSTANCE MessageFate WITH fate <- [m \in Message |-> FateOf(m)]
KeepsPromise == Fate!FateSpec

\* The queue lets go of a message only when it is settled or in the ZSet's
\* care: no ack overtakes the publish, push or dead-lettering it stands for.
AccountedFor ==
  \A m \in Message : broker[m] = "gone" => Settled(m) \/ m \in parked

\* However crashes, shutdowns, lost connections and failures fall, a message
\* is never answered more often than it was delivered: defer, retry and
\* delay do not multiply replies.
RepliesWithinDeliveries ==
  \A m \in Message : Len(replies[m]) <= deliveries[m]

\* Who is between acquire_lock and release_lock for u.
Working(u) ==
  {t \in Task : task[t].phase \in {"locked", "answered"} /\ TaskUser(t) = u}
  \union
  {p \in {Poller} : /\ poller.phase \in {"locked", "answered"}
                    /\ EnvUser(poller.env) = u}

\* Whoever works on a user's dialogue has the user's lock, so two batches of
\* a user are never worked on at once (ADR-5).  Holds as long as no holder
\* outlives the ttl of its lock.
WorkingHoldsLock == \A u \in User : \A h \in Working(u) : lock[u] = h

\* Every delivery the broker waits for is in the hands of a task that will
\* ack or nack it: nothing pins a prefetch slot as long as the Worker runs (the
\* deliveries of a stopped one return with its connection).  Holds as long as
\* the consumer connection does not break.
UnackedIsHeld ==
  \A m \in Message :
    running /\ broker[m] = "unacked" =>
      \E t \in Task : [msg |-> m, tag |-> deliveries[m]]
                        \in Range(task[t].batch)

\* Every accepted message is answered, skipped or dead-lettered in the end,
\* however often the lock is busy.  After a crash, a shutdown or a failure it may
\* end lost instead, but it is never carried around for ever.
EventuallySettled ==
  \A m \in Message :
    broker[m] = "queued" ~> \/ FateOf(m) = "settled"
                            \/ FateOf(m) = "lost" /\ faults > 0

-----------------------------------------------------------------------------
(* The inductive strengthening used by the proofs                          *)

\* Only an idle slot has no batch.
BusyHasBatch ==
  \A t \in Task : task[t].phase = "idle" <=> task[t].batch = <<>>

\* Entries, and what the poller works on, have messages.
EntriesNonEmpty ==
  /\ \A e \in scheduled \union due : e.msgs # <<>>
  /\ poller.phase \in {"locked", "answered"} => poller.env.msgs # <<>>

\* What a task is about to ack has been settled or handed to the ZSet.
Backed ==
  \A t \in Task :
    task[t].phase \in {"answered", "acking"} =>
      \A m \in Range(Msgs(task[t].batch)) : Settled(m) \/ m \in parked

\* The ZSet and the poller know parked messages only.
EntriesParked ==
  \A e \in scheduled \union due \union {poller.env} :
    Range(e.msgs) \subseteq parked

PipelineInv ==
  /\ TypeOK
  /\ BusyHasBatch /\ Backed
  /\ EntriesNonEmpty /\ EntriesParked
  /\ AccountedFor

-----------------------------------------------------------------------------
(* What the documents say of the pipeline                                  *)

\* ADR-15 and the failure table of ARCHITECTURE_FULL: what cannot be
\* processed ends in the dead-letter queue, nothing is lost.
NeverLost == \A m \in Message : FateOf(m) # "lost"

\* ADR-5: the lock guarantees that a message is not processed twice.
ProcessedOnce == \A m \in Message : Len(replies[m]) <= 1

\* _scheduled_poller: "Runs forever".
PollerRunsForever == running => poller.phase # "dead"

\* IncomingMessage: chat_external_id is where the reply must be delivered.
ReplyReachesItsChat ==
  \A m \in Message : Range(replies[m]) \subseteq {ChatOf[m]}
=============================================================================
