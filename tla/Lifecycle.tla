----------------------------- MODULE Lifecycle -----------------------------
(***************************************************************************)
(* The process of the bot from start to stop, with what outlives it: the   *)
(* webhook and the waiting updates at Telegram, the heartbeat in Redis and *)
(* the table of errors.  The error sink takes records from the loggers and *)
(* stores them in batches from a task of its own.                          *)
(***************************************************************************)
EXTENDS Integers, Sequences, FiniteSets, SequencesExt

CONSTANTS
  Update,        \* messages that users send to Telegram
  Record,        \* error records that the program logs
  Group,         \* fingerprints
  GroupOf,       \* make_fingerprint
  Agendas,       \* what may happen in one behaviour: a choice of sets
  QueueSize,     \* _QUEUE_SIZE
  BatchSize,     \* _BATCH_SIZE
  Ephemeral,     \* no TELEGRAM_WEBHOOK_URL: a tunnel is used
  HeartbeatTtl,  \* HEARTBEAT_TTL_SECONDS
  MaxStarts,     \* bounds the starts of the process
  Absent,        \* no key
  STOP           \* _STOP

ASSUME LifecycleAssumption ==
  /\ GroupOf \in [Record -> Group]
  /\ {QueueSize, BatchSize} \subseteq Nat \ {0}
  /\ {HeartbeatTtl, MaxStarts} \subseteq Nat
  /\ Ephemeral \in BOOLEAN
  /\ Absent \notin Nat /\ STOP \notin Record

VARIABLES
  agenda,   \* the updates, records and requests of this behaviour
  app,      \* where lifespan is
  starts,
  webhook,  \* whether Telegram has the address of the running process
  update,   \* update[u]: where the message is
  beat,     \* the age of the heartbeat key
  called,   \* _enqueue calls that the loop has to make
  queue,    \* _queue of the sink
  drain,    \* the drainer task and its batch
  fate,     \* fate[r]: what became of the record
  table     \* table[g]: the counter of the row of error_events, 0 for no row

hookVars == <<webhook, update>>
sinkVars == <<called, queue, drain, fate, table>>
lifeVars == <<agenda, app, starts, hookVars, beat, sinkVars>>

-----------------------------------------------------------------------------

\* starting: up to _set_webhook; unhooked: inside it; up: at yield; then
\* stopping, closing once the heartbeat is gone, and draining in sink.stop.
AppPhases ==
  {"down", "starting", "unhooked", "up", "stopping", "closing", "draining"}

\* The tasks that beat and that log.
Beating == app \in {"up", "stopping"}
Logging == app \in {"starting", "unhooked", "up", "stopping", "closing"}

DrainPhases == {"off", "waiting", "collecting", "flushing", "last", "done"}
Off == [phase |-> "off", batch |-> <<>>]

Fates == {"new", "held", "stored", "removed", "failed", "dropped", "evicted",
          "lost"}

LifeTypeOK ==
  /\ agenda \in Agendas
  /\ app \in AppPhases
  /\ starts \in 0 .. MaxStarts
  /\ webhook \in BOOLEAN
  /\ update \in [Update -> {"unsent", "pending", "delivered", "dropped"}]
  /\ beat \in (0 .. HeartbeatTtl) \union {Absent}
  /\ Range(called) \subseteq Record
  /\ Range(queue) \subseteq Record \union {STOP} /\ Len(queue) <= QueueSize
  /\ drain.phase \in DrainPhases
  /\ Range(drain.batch) \subseteq Record /\ Len(drain.batch) <= BatchSize
  /\ fate \in [Record -> Fates]
  /\ table \in [Group -> Nat]

LifeInit ==
  /\ agenda \in Agendas
  /\ app = "down"
  /\ starts = 0
  /\ webhook = FALSE
  /\ update = [u \in Update |-> "unsent"]
  /\ beat = Absent
  /\ called = <<>>
  /\ queue = <<>>
  /\ drain = Off
  /\ fate = [r \in Record |-> "new"]
  /\ table = [g \in Group |-> 0]

-----------------------------------------------------------------------------
(* The error sink                                                          *)

Settle(records, outcome) ==
  fate' = [r \in Record |-> IF r \in records THEN outcome ELSE fate[r]]

\* emit: the record is handed over to the loop.
Log(r) ==
  /\ r \in agenda
  /\ Logging
  /\ fate[r] = "new"
  /\ called' = Append(called, r)
  /\ Settle({r}, "held")
  /\ UNCHANGED <<agenda, app, starts, hookVars, beat, queue, drain, table>>

\* emit in a thread that looked at _loop before sink.stop cleared it: the loop
\* makes the call while the drainer runs, or after the last look at the queue.
LogLate(r) ==
  /\ r \in agenda
  /\ app = "draining"
  /\ fate[r] = "new"
  /\ \/ called' = Append(called, r) /\ Settle({r}, "held")
     \/ UNCHANGED called /\ Settle({r}, "lost")
  /\ UNCHANGED <<agenda, app, starts, hookVars, beat, queue, drain, table>>

QueueFull == Len(queue) >= QueueSize

\* _enqueue: a full queue drops the record and counts it.
Enqueue ==
  /\ called # <<>>
  /\ called' = Tail(called)
  /\ IF QueueFull
     THEN Settle({Head(called)}, "dropped") /\ UNCHANGED queue
     ELSE queue' = Append(queue, Head(called)) /\ UNCHANGED fate
  /\ UNCHANGED <<agenda, app, starts, hookVars, beat, drain, table>>

\* _run waits for a record, then collects a batch until the window closes or
\* the batch is full; the sentinel ends it after a last batch.
Collect ==
  /\ \/ drain.phase = "waiting"
     \/ drain.phase = "collecting" /\ Len(drain.batch) < BatchSize
  /\ queue # <<>>
  /\ queue' = Tail(queue)
  /\ drain' = IF Head(queue) # STOP
              THEN [phase |-> "collecting",
                    batch |-> Append(drain.batch, Head(queue))]
              ELSE [drain EXCEPT !.phase =
                      IF @ = "waiting" THEN "done" ELSE "last"]
  /\ UNCHANGED <<agenda, app, starts, hookVars, beat, called, fate, table>>

WindowCloses ==
  /\ drain.phase = "collecting"
  /\ drain' = [drain EXCEPT !.phase = "flushing"]
  /\ UNCHANGED <<agenda, app, starts, hookVars, beat, called, queue, fate,
                 table>>

\* Bug: the occurrences of a fingerprint in a batch count once.
AggregateOnce(records) ==
  [g \in Group |->
     table[g] + IF \E r \in records : GroupOf[r] = g THEN 1 ELSE 0]

\* aggregate_events, upsert_many: one row per fingerprint, whose counter grows
\* by the number of occurrences.
Aggregate(records) ==
  [g \in Group |-> table[g] + Cardinality({r \in records : GroupOf[r] = g})]

\* _flush: the batch is stored, or dropped after an exception or a timeout; a
\* timeout may also strike after the commit.
Flush(records) ==
  \/ table' = Aggregate(records) /\ Settle(records, "stored")
  \/ records # {} /\ Settle(records, "failed") /\ UNCHANGED table

FlushBatch ==
  /\ drain.phase \in {"flushing", "last"}
  /\ Flush(Range(drain.batch))
  /\ drain' = [phase |-> IF drain.phase = "last" THEN "done" ELSE "waiting",
               batch |-> <<>>]
  /\ UNCHANGED <<agenda, app, starts, hookVars, beat, called, queue>>

\* _error_events_cleanup, for a group that was not seen for long.
Cleanup(g) ==
  /\ app = "up"
  /\ table[g] > 0
  /\ table' = [table EXCEPT ![g] = 0]
  /\ Settle({r \in Record : GroupOf[r] = g /\ fate[r] = "stored"}, "removed")
  /\ UNCHANGED <<agenda, app, starts, hookVars, beat, called, queue, drain>>

SinkStep == Enqueue \/ Collect \/ WindowCloses \/ FlushBatch

-----------------------------------------------------------------------------
(* Start and stop                                                          *)

Start ==
  /\ app = "down"
  /\ starts < MaxStarts
  /\ starts' = starts + 1
  /\ app' = "starting"
  /\ drain' = [Off EXCEPT !.phase = "waiting"]
  /\ UNCHANGED <<agenda, hookVars, beat, called, queue, fate, table>>

\* _set_webhook deletes the webhook with drop_pending_updates=True.
Unhook ==
  /\ app = "starting"
  /\ app' = "unhooked"
  /\ webhook' = FALSE
  /\ update' = [u \in Update |->
                  IF update[u] = "pending" THEN "dropped" ELSE update[u]]
  /\ UNCHANGED <<agenda, starts, beat, sinkVars>>

\* It sets the new one, and startup ends.
Hook ==
  /\ app = "unhooked"
  /\ app' = "up"
  /\ webhook' = TRUE
  /\ UNCHANGED <<agenda, starts, update, beat, sinkVars>>

\* The process ends as it is: startup fails, or it is killed.
Perish ==
  /\ app # "down"
  /\ app' = "down"
  /\ called' = <<>>
  /\ queue' = <<>>
  /\ drain' = Off
  /\ Settle({r \in Record : fate[r] = "held"}, "lost")
  /\ UNCHANGED <<agenda, starts, hookVars, beat, table>>

\* A user writes, whether the process runs or not.
Send(u) ==
  /\ u \in agenda
  /\ update[u] = "unsent"
  /\ update' = [update EXCEPT ![u] = "pending"]
  /\ UNCHANGED <<agenda, app, starts, webhook, beat, sinkVars>>

\* Telegram calls the webhook of a process that serves.
Push(u) ==
  /\ app = "up"
  /\ webhook
  /\ update[u] = "pending"
  /\ update' = [update EXCEPT ![u] = "delivered"]
  /\ UNCHANGED <<agenda, app, starts, webhook, beat, sinkVars>>

\* heartbeat_loop: a failure is left to the next time.
Beat ==
  /\ Beating
  /\ beat' = 0
  /\ UNCHANGED <<agenda, app, starts, hookVars, sinkVars>>

\* scheduler.shutdown and the cancellation of the tasks.
Stop ==
  /\ app = "up"
  /\ app' = "stopping"
  /\ UNCHANGED <<agenda, starts, hookVars, beat, sinkVars>>

\* The heartbeat loop is cancelled and its key deleted, errors suppressed.
EndHeartbeat ==
  /\ app = "stopping"
  /\ app' = "closing"
  /\ beat' \in {beat, Absent}
  /\ UNCHANGED <<agenda, starts, hookVars, sinkVars>>

\* The webhook of a tunnel is deleted, errors suppressed; then the handler is
\* removed and sink.stop puts the sentinel: a full queue loses its first record.
StopSink ==
  /\ app = "closing"
  /\ app' = "draining"
  /\ webhook' \in IF Ephemeral THEN {webhook, FALSE} ELSE {webhook}
  /\ IF QueueFull
     THEN queue' = Append(Tail(queue), STOP) /\ Settle({Head(queue)}, "evicted")
     ELSE queue' = Append(queue, STOP) /\ UNCHANGED fate
  /\ UNCHANGED <<agenda, starts, update, beat, called, drain, table>>

\* Bug: what came after the sentinel is left in the queue.
LeftNothing == {}

\* _drain_queue: what is in the queue without the sentinel.
Leftovers == Range(queue) \ {STOP}

\* sink.stop: the drainer is done, or is cancelled after a timeout with a batch
\* in hand, which is lost unless its commit went through; what is left in the
\* queue is flushed.
SinkStops ==
  LET inHand == Range(drain.batch)
  IN /\ app = "draining"
     /\ called = <<>>
     /\ app' = "down"
     /\ queue' = <<>>
     /\ drain' = Off
     /\ \E saved \in {{}, inHand}, flushed \in {{}, Leftovers} :
          /\ saved # {} => drain.phase \in {"flushing", "last"}
          /\ table' = Aggregate(saved \union flushed)
          /\ fate' = [r \in Record |->
               CASE r \in saved \union flushed -> "stored"
                 [] r \in inHand \ saved       -> "lost"
                 [] r \in Leftovers \ flushed  -> "failed"
                 [] OTHER                      -> fate[r]]
     /\ UNCHANGED <<agenda, starts, hookVars, beat, called>>

LifeStep ==
  \/ Start \/ Unhook \/ Hook \/ Perish
  \/ Beat \/ Stop \/ EndHeartbeat \/ StopSink \/ SinkStops
  \/ SinkStep
  \/ \E r \in Record : Log(r) \/ LogLate(r)
  \/ \E g \in Group : Cleanup(g)
  \/ \E u \in Update : Send(u) \/ Push(u)

-----------------------------------------------------------------------------
(* Properties                                                              *)

\* The counter of a row is the number of the records behind it, however they
\* came in batches, and none is counted twice over a failure or a restart.
CountsAreReal ==
  \A g \in Group :
    table[g] = Cardinality({r \in Record : GroupOf[r] = g /\ fate[r] = "stored"})

\* A process that is gone has left no record behind: each was stored, or went
\* down with a failure, or came from a thread after the last look at the queue.
NothingHeldWhenDown == app = "down" => \A r \in Record : fate[r] # "held"

\* "so offline messages of the downtime get delivered instead of being
\* discarded" (_set_webhook).
OfflineDelivered == \A u \in Update : update[u] # "dropped"
=============================================================================
