# Nodya in TLA+

Nodya is a personal assistant behind a Telegram bot: one asyncio process that
takes messages from RabbitMQ, answers them with a language model, keeps the
dialogue in Redis, facts in PostgreSQL and their vectors in Qdrant, puts silent
users' dialogues "to sleep", turning them into facts and a summary, and reads
news feeds for its owner. This directory holds TLA+ models of it, the TLC
configurations that check them, and proofs for TLAPS.

## The system

| Component | State it keeps | Operations | Talks to |
|---|---|---|---|
| Telegram gateway (`chats/telegram/webhook.py`) | none | turn an update into a message, publish it | RabbitMQ |
| RabbitMQ topology and publisher (`common/broker.py`, `api/messaging.py`) | queues, unacknowledged deliveries, the dead-letter queue | deliver, ack, nack, requeue | gateway, Worker, sender |
| Worker (`worker.py`) | debounce buffers, timers, flush tasks, poller task, captured links | consume, flush a batch, answer, postpone, poll, link accounts, /feed commands | everything below |
| Short memory (`brain/memory/short/redis.py`) | per user: lock, state hash, history list, link code; global: `nodya:scheduled`, feed claims, quotas, sessions | one method per operation, Lua scripts for release and pop | Redis |
| Consolidation (`brain/memory/consolidation.py`) | none of its own | `run_for_all`, `run_user` | Redis, LLM, PostgreSQL, Qdrant |
| Long memory (`brain/repositories`, `brain/models`) | users, messages, hard facts, feed sources, tokens, error events | upsert, decay, touch | PostgreSQL |
| Vector memory (`brain/memory/vector`) | points | upsert, search, relabel | Qdrant |
| LLM router, search chain (`brain/llm_choice`, `brain/search`) | provider instances | walk a chain of candidates with retries | HTTP providers |
| Media recognition (`brain/vision`) | a semaphore per batch | fetch a frame, describe it | Telegram, LLM router |
| Feed sources, parser, discovery (`brain/feed`, `brain/skills/background.py`) | rows, claims, quotas | add under a cap, scan, score, notify, remember | PostgreSQL, Redis, RabbitMQ |
| Telegram sender, typing (`chats/telegram/sender.py`, `chats/typing.py`) | typing loops by chat | deliver with retries, start/stop typing | Telegram |
| Web API: registration, linking (`api/auth`) | tokens, link codes | register, log in, link, delete | PostgreSQL, Redis |
| Admin panel (`admin`) | sessions, failed-login counters, a TTL cache | log in, show | everything, read-only |
| Error sink (`core/error_sink.py`) | a bounded queue | emit from any thread, flush | PostgreSQL |
| Start and shutdown (`main.py`, `core/runtime_status.py`) | the tasks, the scheduler, the webhook, the heartbeat | start, stop in order | all |

What is hard in it: many tasks run between whose `await`s anything may happen;
the lock that keeps them apart has a ttl; messages are delivered at least once;
a crash can fall between any two steps; a batch may be parked in a ZSet, of
which a poller takes its entries destructively; the state key has a ttl it
inherits; two processes may consolidate the same user; a cap is checked before
the commit it guards; accounts are merged under batches that are in flight;
stop events can be lost or overtake their start; caches cover failures with old
data.

What has to hold, per component:

- *Lock*: two holders never work at once within their ttls, unless an account merge
  deleted the key of one; a late release does not free somebody else's lock; no
  lock is kept for ever.
- *Worker and poller*: no acknowledgement before the outcome it stands for;
  every message is settled in the end; postponing and retrying do not multiply
  replies; only who has the lock works; nothing pins a prefetch slot for ever.
- *Consolidation*: no turn is forgotten by a swap; facts are committed before
  the text they come from goes, but for those beyond the cap of a run; a failure
  leaves everything for a retry; no run summarises what another has just
  summarised; a long history is summarised in the end.
- *Pairing*: a code links once; memory follows its person through a merge, or
  the person is told; nobody is told of a link he does not have; a merge leaves no
  keys under the account it removed.
- *Feed sources*: concurrent adds exceed the cap by no more than their number;
  one caller is told a source was added; discovery revives nothing.
- *Feed scan*: one announcement per claim; nothing relevant is dropped; no source
  starves; the daily limits hold.
- *Sender, typing*: nothing published is lost or sent twice without a lost
  answer; no typing loop outlives its turns.
- *Router, search*: the first answer wins, in order.
- *Media*: only still frames are asked for; the batch goes on whatever fails.
- *Process, sink, cache*: error counters are the truth; a dead process leaves no
  record behind; what the panel shows is as old as the windows allow.

`PROJECT.json` lists the hazards of the code one by one, each at its line and
with the properties that watch it.

## Modules

| Module | Models |
|---|---|
| `UserLock` | the lock key of one user: `acquire_lock`, `release_lock`, its ttl |
| `MessageFate` | what the dialogue pipeline promises about a message, abstractly |
| `DialoguePipeline` | the way of the messages: queue, debounce buffers, flush tasks, lock, ZSet, poller, dead-letter queue |
| `Consolidation` | one user's history and state, the Worker's turns, the scheduled scan and a manual run |
| `AccountLink` | link codes, the `/link` command and its merge, accounts of the web API, batches in flight |
| `FeedSources` | the list of sources under commands, captures and discovery |
| `FeedScan` | the background parser over the sources and their entries |
| `Delivery` | the outgoing queue and `TGSender` |
| `TypingLoops` | typing events, their callbacks and the loops of the chats |
| `FallbackChain` | `LLMRouter` and `SearchChain`, any number of calls at once |
| `MediaNotes` | descriptors and `MediaRecognizer`; extends `FallbackChain`, whose calls it makes |
| `Lifecycle` | `lifespan`: webhook, heartbeat, error sink |
| `AdminPanel` | the cache and the collectors of the panel; extends `Lifecycle`, whose heartbeat and error table it shows |
| `DialoguePipeline_proofs`, `AccountLink_proofs`, `Delivery_proofs`, `TypingLoops_proofs`, `MediaNotes_proofs`, `AdminPanel_proofs` | TLAPS proofs, each of the module it is named after; the last two also of `FallbackChain` and of `Lifecycle`, which their modules extend |
| `Feeds_proofs` | TLAPS proofs of `FeedSources` and of `FeedScan` |
| `Consolidation_proofs` | TLAPS proofs of `Consolidation` and of `UserLock`, the lock it relies on |
| `MC...` | constants for TLC |

Definitions introduced by a comment "Bug: ..." are mutated forms of the
definition that follows. No specification uses them; they serve to test that
each property notices the bug they stand for.

### UserLock

`key` is the Redis key with its remaining ttl, `holding[c]` the token in the
local variable of client `c`. `Acquire` is `SET NX EX` with a fresh token,
`Release` the Lua script that compares the token before it deletes,
`Abandon` a client that crashed or whose release raised, `AcquireAnswerLost` a
`SET` whose answer never arrived. `LockTick` is one unit of time. A uuid4 token is
assumed to differ from every token still around.

`MergeDropsKey` is the end of `rename_user_keys`: an account merge deletes the lock
key of the account it absorbed, with no token and without having the lock, while
a batch, the poller or a consolidation run that looked the account up before may
be at work. So the lock does not protect against merges, and the properties say
as much: they are about clients that are `Secure`, within the ttl they asked for
and not `robbed`. Without that exception both are violated within a few steps.
`lease[c]`, what is left of the ttl `c` asked for, and `robbed`, the clients whose key a
merge has deleted, are history variables read by no action. In the modules that
have only an owner for a lock, a merge is one of the things that `expiry` stands for.

### DialoguePipeline

`broker[m]` says where RabbitMQ has message `m`, `deliveries[m]` how often it was
delivered, so that a delivery of a closed channel is told from the current one.
A flush task has a batch of deliveries and a phase; a phase is a point between
two `await`s at which another step can matter:

    debounce -> acquire -> locked -> answered -> acking -> (idle)
                   |          \________\____
                   |                        v
                   +--> acking, or nacking (an exception)

- `Outgoing(ms, n)`: the n-th parked reply to a batch that is in the ZSet; two
  replies to a batch that was redelivered are two members, while the same batch
  postponed twice at the same retry is one.
- `OnMessage`, `OnMalformed`: `_on_message`. A batch is that of the sender, not
  of the chat.
- `DebounceFires`: `_flush_after_debounce` takes the batch out of `_buffers`.
- `AcquireLock` / `DeferBusy`: `_process_batch` before and after `acquire_lock`.
- `Answer`: `_run_locked`, which replies now, parks the reply, or skips it; the
  choice is random in the code.
- `ReleaseLock`, `AckNext`, `NackNext`: the `finally`, and the loops one delivery
  at a time. An ack on a closed channel raises; so does the nack that follows,
  and the task ends.
- `PopDue`, `Poller...`: `_scheduled_poller` and `_process_scheduled`. A popped
  entry is in `due` until it is processed, in any order.
- `SleeperAcquires`, `SleeperReleases`: a consolidation run, seen from here.
- Faults, each of which a configuration allows or not: `crash` (only RabbitMQ and
  Redis remember), `stop` (`Worker.stop` and a later `Restart`; with a poller that has
  died, `stop` raises its error and the consumer connection stays open until the
  process ends: `Consuming`, `FlushIgnored`), `reconnect`
  (`connect_robust` after a lost connection), `failure` (any awaited call raises,
  the release of the lock included, and whether or not a call that raised took
  effect), `redis` (`pop_due_scheduled` raises), `expiry` (a lock's ttl runs out
  under its holder, or a merge deletes its key).

`replies`, `skipped`, `parked` and `deliveries` of a message are its history;
`parked` holds every message that was ever in the ZSet.

`MessageFate` has one variable per message: unsent, pending, settled (answered,
skipped, dead-lettered) or lost. Settled and lost are for ever, and only what
was parked can be lost. `FateOf` in `DialoguePipeline` is the refinement mapping
and `KeepsPromise` the refinement.

### Consolidation

One user. `context` is the Redis list, whose entries are turns (the batch and
its reply) or summaries of sets of turns; `state` the hash with its ttl and the
age of `last_active_at`; `sleeper[s]` where the scan or the manual run is and
what it has read. `SetState` keeps the ttl the key already has, as `HSET` does.
`hardFacts` and `vectors` are the turns whose facts are in PostgreSQL and in
Qdrant. A turn tells one fact, and `FactOf` says which turns tell one with the same
category and key. `PersistFacts` writes what `_persist_facts` writes: of the facts
of an answer, in any order, the first `MaxFacts` (`Considered`), of those with one
identity the first (`Firsts`), each over the row with its identity (`Upserted`).
`surplus` are the turns whose fact a run cut off; they go behind the summary all
the same, and `FactsBeforeSummary` makes no claim for them. Which facts a model
extracts is not modelled.
The check of the scan (`CheckState`, `CheckLength`) is made without the lock,
and `run_user` is called with `check_idle=False`, as in the code.

### AccountLink

`bound[a]` is the row of account `a`: no row yet, deleted, without an identity, or
its `telegram_id`. `codes[c]` is the key of a link code, `pending[a]` the key that
remembers the last code of an account, `context[a]` the memory under the keys of
the account, `states` the accounts that have a state key. `issue_link_code` takes three steps (`IssueReads`, `IssueDeletes`,
`IssueSets`), `_handle_link` up to six: `Consume` (GETDEL), `ReadAccounts`,
`Commit` or `CommitRefused`, `RenameKeys`, `Reassign`, `Answer`, each of which can
fail. A command that was not acknowledged is delivered again after a crash, with
its code gone. A dialogue batch reads its account first (`BatchStarts`), sets
thinking (`BatchThinks`) and saves its turn and idle later (`BatchSaves`), as
`_process_batch` does. `RenameKeys` renames the context and then the state and may
break off in between; its DEL of the lock key is `MergeDropsKey` of `UserLock`, and
the debounce key it deletes too is never set (`push_debounce` has no caller).
`strays` are the accounts that got or kept keys for a reason that
`NothingLeftBehind` names. `exposed` and `excused` are history as well: turns saved in the middle of a move, and people whose memory went
astray for one of the reasons that `TurnsFollow` names. Two of them came up when
its inductive invariant was looked for: a crash before the sender is told of a
failed move, and a second person who is bound to the account
that a first one has just left.

### FeedSources

`row[u]` is the row of a URL, `call[s]` a call of `add_resolved`, which awaits the
database to look the URL up, to count, and to commit. Commands, captures and
discovery passes (`op`, `job`) make such calls at the same time. `Feeds` says what
a resolver can find behind a link, and the ranking of the model is any sequence
of at most `MaxSources` of the candidates. `peak`, the most callers there were at
once between check and commit, `inserts` and `captures` are history.

### FeedScan

One pass of `BackgroundParserJob.run` at a time (APScheduler's `max_instances` is
one). Sources are numbered in the order they were created, which is the order
`list_active` gives; what is left of a pass is the set `scan.sources`, and the
loop is at its least element, `Foremost`. `wait[s]` counts the scans since
`last_checked_at`: as the window of `_is_due` equals the interval, a source
touched in the last scan may or may not be due. The model of `_handle_item` is
`Claim` or `Seen`, `Score`, `NotifyQuota`, `Publish` or `Remember`. Entries
appear, claims run out, days pass and sources are switched in between;
`ScanAborts` is an exception in the job or a restart.

### Delivery and TypingLoops

Both have a queue, callbacks up to the prefetch limit, and the end of the process,
after which the broker puts back what was not acknowledged, in any order. In
`Delivery`, `handler[m]` is how far the callback of a message is; a failed send may
have arrived (`unsure` counts what nobody can know), and an exception that no
except clause names leaves the delivery unacknowledged (`SendRaises`,
`ResolveFails`). The connection lives as long as the process: a callback that
outlives its channel, when `connect_robust` reconnects, is not modelled here. In `TypingLoops` the Worker's
turns publish start and stop events; an event without a chat is looked up in the
database, where another callback can overtake it. `misled` holds the chats whose
stop was lost or came first.

### FallbackChain and MediaNotes

A call has its chain of candidates and the outcomes of those tried. How long a
request takes is left open: the 60 s that the providers give httpx are for each
phase of a request, and `GeminiProvider` gives no timeout at all. `Config` is
`LLM_PROVIDER_CHAINS`, any sequence of entries for each role, from which `Candidates`
builds the chain as `_chain` does. `After` says what the three loops
(`generate_with_fallback`, `embed`, `SearchChain.search`) make of each outcome.
`MediaNotes` makes its calls through it: `Descriptor` is the choice of the
gateway, `Sources` that of the recognizer, `Describing` the semaphore. `requested`
remembers what was downloaded, `fetched` what of it was a frame. The branch of
`_descriptor` for messages without a descriptor is left out: the gateway sends none.

### Lifecycle and AdminPanel

`app` is where `lifespan` is. Records go from a logging thread (`Log`) through the
loop (`Enqueue`) to the drainer (`Collect`, `WindowCloses`, `FlushBatch`); `StopSink`
puts the sentinel and `SinkStops` flushes what is left. A thread that looked at
`_loop` before the stop may still hand its record over (`LogLate`): in time for the
leftovers, or too late, and then it is lost. `agenda` chooses which
messages, records and pages a behaviour has, so that what does not interact is
not interleaved. `AdminPanel` adds requests that go through `TTLCache.get`: the
look without the lock, the look with it, the load, and what is stored. It keeps
ages instead of clock times; `silent` is how long nobody was beating.
`PanelAssumption` has the window of a failure no longer than a load may take, as
the defaults of `TTLCache` do, which `services.py` leaves as they are: were it
longer, an error kept for that window could be older than `ShownIsRecent` says.

## Runs

Each takes a few minutes at most with two workers.

| Run | Instance | States | Shows |
|---|---|---|---|
| `lock` | 3 clients with ttls 2, 2, 3; 4 tokens; merges | 8121 | `LeaseOwnsKey`, `MutualExclusion`, `NeverStuck` |
| `pipeline_safety` | 3 messages of a user, one malformed, 2 task slots, 1 retry, any 2 of crash, stop, failure, Redis error | 1.8 M | `AccountedFor`, `RepliesWithinDeliveries`, `WorkingHoldsLock`, `UnackedIsHeld`, and `KeepsPromise`: the pipeline implements `MessageFate` |
| `pipeline_live` | 2 messages of a user, 2 task slots, 1 retry, 1 of crash, stop, failure, expiry, reconnect | 0.4 M | `EventuallySettled` |
| `sleep` | 3 turns, two of them with the same fact, at most 3 entries and 2 facts a run, any 2 kinds of fault | 1.0 M | `NoTurnForgotten` and `SwapsWorthwhile` (unless a lock expired), `FactsBeforeSummary`, `ThinkingExpires`, `EventuallyConsolidated` (unless the process or Redis failed) |
| `link` | 1 web account, 2 that the Worker may register, 2 people, 2 codes, 2 commands, 1 batch, 1 failure, 1 crash | 2.4 M | `CodeUsedOnce`, `TurnsFollow`, `LinkedMeansBound`, `NothingLeftBehind` |
| `feed_sources` | 2 feeds, 2 links, 2 commands or captures, 1 discovery pass, a cap and a daily limit of 1, 1 restart | 3.2 M | `CapOvershoot`, `AddedOnce`, `CapturesWithinQuota`, `NeverRevived` |
| `feed_scan` | 2 sources with 2 and 1 entries, a budget and a limit of 1, 1 failure, 1 expired claim, 1 switch | 0.9 M | `AnnouncedPerClaim`, `NotificationsBounded`, `RelevantIsKept`, `EveryoneIsPolled` |
| `delivery` | 4 messages, one for each kind of addressee, a prefetch of 2, 4 failures, 1 end of the process | 0.3 M | `NothingLost`, `CopiesExplained`, `GivenUpLate`, `EveryMessageSettles` |
| `typing` | 2 turns in a group, 1 in a direct chat, 1 of another channel, a prefetch of 2, 1 failure, 1 end | 0.4 M | `TypingEnds`, `ShownWhileTyping`, `EveryStopHandled` |
| `media` | 5 messages, of which 4 have attachments and 2 are described, one at a time; a call of the Worker beside; 1 provider that cannot be built | 0.1 M | `FirstAnswerWins`, `OnlyFramesFetched`, `AllDescribed` |
| `admin` | 1 message, 3 records of 2 groups, 3 pages, a queue and batches of 2, 2 starts | 3.3 M | `CountsAreReal`, `NothingHeldWhenDown`, `ShownIsRecent`, `HealthyMeansAlive` |
| `offline` | the same with a message only | - | `OfflineDelivered` does not hold, see below |

Why the bounds suffice. The lock, the batches and the retries are per user, so
the interesting competition is that of two batches of one user with the poller
and a consolidation run; a second user adds only the order in which the poller
takes its entries, which is arbitrary anyway. Three messages give batches of one
and of two, a batch overtaking a postponed one, and a redelivery into a new
batch. Two faults give the pairs that matter (a failing release followed by a
crash); in `Consolidation` each kind of fault happens at most once. In
`Consolidation` three turns under a cap of three entries have the history
summarised, extended after a summary, also while a run is looking at it, and
trimmed when the turns after a summary are one too many; three facts are one more
than a run writes, and the first two of them are about the same thing. The ttl of
the state and the required silence are one unit each: a state can expire before
the silence is long enough or after it. In `AccountLink` two people compete for one
web account, with a merge for each of them, and the second command is sent with
the other code or the same; the one failure may also be the commit that the unique
column refuses. In
`FeedSources` three callers meet at a cap of one, and two links lead to one feed.
In `FeedScan` the busier source comes first, and the budget is smaller than its
page, which is how the second could starve. In `Delivery` four failures are one
more than one message's attempts, so that a second message fails too, and one
message is redelivered with failures behind it. In `TypingLoops` the turns of the
group overlap in every way. In `MediaNotes` the limit, the semaphore and the
providers all run out. In `AdminPanel` the queue is smaller than the number of
records, each window of the cache can pass while another is open, and a second
start follows any end of the first. Slots, codes, automatic accounts, people and
commands are interchangeable, hence the symmetries; none is used with a liveness property.

Liveness assumes what asyncio, the scheduler, the broker and time give: a ready
task runs, sleeps end, requests end, a ttl runs out, a consolidation
run ends, the scan comes round again, the broker delivers while the prefetch
allows it, the service manager starts the process again. That requests end is the
one assumption the code does not bear alone: `GeminiProvider` gives its requests no
timeout, so that `AllDescribed`, and with it the answer of a batch, rests there on
the service. Entries of the ZSet have
a fixed score that passes, while the poller may be busy whenever one is due:
strong fairness of the pop that takes it. No user has to write and no fault has to
happen. Where a cfg has `CHECK_DEADLOCK FALSE` the bounded inputs of the model
(messages, turns, starts, codes) can be used up and everything be done.

## Where the code and its documentation differ

`OfflineDelivered` (run `offline`): the docstring of `_set_webhook` and
`docs/TODO_MASTER.md` say that messages of the downtime get delivered, but
`delete_webhook(drop_pending_updates=True)` discards them at every start.

Further configurations, each the smallest instance that violates its property,
show lines of the documentation the code does not keep:

1. `MCPipelineLost.cfg`, `NeverLost`: the poller removes an entry before it works on
   it; when that work fails, or the process ends, the batch or the delayed reply
   is in no queue and not in the DLQ either (ADR-15, failure table of
   `ARCHITECTURE_FULL.md`).
2. `MCPipelineTwice.cfg`, `ProcessedOnce`: ADR-5 says the lock keeps a message from
   being processed twice; a crash between the reply and the ack has it answered
   again. `RepliesWithinDeliveries` is what does hold.
3. `MCPipelinePoller.cfg`, `PollerRunsForever`: a Redis error in `pop_due_scheduled`
   ends the poller.
4. `MCPipelineChat.cfg`, `ReplyReachesItsChat`: a batch may mix chats; its reply goes
   to the first.
5. `MCConsolidationSilent.cfg`, `SleepsOnlyTheSilent`: the state key keeps the ttl of
   "thinking" and vanishes; the scan takes its absence for eligibility.
6. `MCConsolidationRetry.cfg`, `NextScanRetries`: a run that dies leaves "sleeping"
   for ever.
7. `MCConsolidationVectors.cfg`, `UnvectorizedStaysReadable`: after a failed embedding
   the history is replaced all the same, so no later run sees what the fact came
   from.

Properties that are stated in the modules, quote the line they come from, and do
not hold either (put one in the cfg of its module's run to see it): `NeverAboveCap`
(`FeedSources`: the check is not made in the transaction of the insert),
`AnnouncedOnce` (`FeedScan`: a claim runs out while the entry is still in the feed),
`DeletedLeavesNothing` and `OneCodePerAccount` and `OnlyDuplicatesAbsorbed`
(`AccountLink`: `delete_me` leaves Redis and Qdrant alone, two requests read the same
pending code, any account that has the identity is absorbed),
`ReceivedIsSettled` (`Delivery`: a lookup that raises), `ShownUntilItsStop`
(`TypingLoops`: the first stop ends the loop of the chat), `AllTriedBeforeGivingUp`
(`FallbackChain`: only an `LLMError` moves on). `SingleFlight`, `TouchedWhenHandled`, `ConcurrencyKept`, `NotesAreTrue`, the type invariants and the
inductive invariants of the proofs do hold in the same runs, and are proved.

What else was noticed while modelling: `_captured_refs` is never cleared, because
`worker.py:647` compares bare user keys with `channel:user` keys; a later batch can
overtake a postponed one of the same user; a command whose answer fails twice
stays unacknowledged; an error group that does not exist is a failed load for the
cache, so the page shows the old group for the stale window, and the branch of
`pages.py` for a missing one is out of reach; failing loads inside the stale
window are not remembered and each request loads again; a failing startup leaves
the sink unflushed; when two callers add one URL and the winner's source is
switched off before the loser reads it again, the loser is told "exists" of a
source that is off; nothing bounds how long a call of six candidates takes, with their
requests and doubling pauses, against the 180 s of the lock; a merge deletes the
lock of the absorbed account under whoever holds it; `stop` of a Worker whose poller
has died raises and leaves the connection open. In parts that are not modelled: INCR
and EXPIRE of the failed-login counter are two calls, and a failure in between
leaves a counter without a ttl (`redis.py:601`); two collectors that find no broker
connection both open one, and the first is never closed (`broker.py:57`).

## Proofs

Every theorem holds for any values of the constants that satisfy the module's
named assumptions; where it needs more, it says so. TLC checked each inductive
invariant on the instance of the module's run before it was proved.

`Consolidation_proofs` ends with the lock itself: `LockInv`, `LeaseOwnsKey` and
`MutualExclusion` of `UserLock`, for any set of clients and tokens and any ttls.
`LeaseOwnsKey` alone is not inductive: that the key outlives the lease needs the
key's remaining time to equal the lease of its owner (`OwnerLease`), that an
absent key has no time left (`KeyLives`), and that two clients never have the
same token (`TokensDiffer`). A merge may delete the key in any state; the client
whose token it held is `robbed` from then on and nobody else is, as tokens differ.
`MutualExclusion` follows: two clients within their leases and not robbed would both
have the token in the key.

Before that it proves `TypeOK`, `ThinkingExpires`, `FactsBeforeSummary`,
`NoTurnForgotten` and the action property `SwapsWorthwhile`. `FactsBeforeSummary`
needs no lock: what a run has read is backed by facts as the history is, and after
its commit it is covered by them or by what the cap cut off (`SeenBacked`), whoever
changes the history meanwhile. An upsert takes the row of one turn for another with
the same identity, so that what is `Recorded` only grows (`CommitRecords`). `NoTurnForgotten` needs the lock: while a run has a history that it
read, that history tells of every turn that was saved and not dropped
(`SeenComplete`), because saving one takes the lock that the run has (`LockHeld`).
Both parts are claimed only as long as no lock has expired under its holder. They
rest on `TokenAssumption`, that the tokens of the lock differ. `SwapsWorthwhile`
needs one thing more, that a run which has a history has the present one, or that
this one's ttl has passed (`SeenCurrent`).

`DialoguePipeline_proofs` has five parts, for any number of messages, users,
chats, task slots, retries and faults.

1. `PipelineInv` and `AccountedFor`. That the queue has let go of a message only if
   it is settled or was parked is not inductive: an ack relies on what its task
   did before. The strengthening is `Backed` (the messages of a task that is
   answered or acking are all accounted for), with `EntriesParked` (the ZSet and
   the poller know parked messages only), `BusyHasBatch` and `EntriesNonEmpty`
   (batches and entries have a first message, which names the user and the chat).
   The proof splits the invariant into what concerns tasks, entries and the rest;
   `Grows` (what is settled or parked stays so, in every step) carries each part
   over the steps that do not touch it; `DeferKeeps` and `RunLockedKeeps` say once
   what a postponement and a decision do; then there is one lemma per group of
   actions.
2. `WorkingHoldsLock`, under the one assumption it needs, that `FaultKinds` has no
   `"expiry"`. The invariant of the lock is said of each holder
   separately (`TaskHolds`, `PollerHolds`); `OnlyFor(h)`, a step that touches no key
   but those of `h` and those without a holder, carries it over to everybody else,
   so that only the actor of a step is left to look at.
3. The refinement `KeepsPromise`: the pipeline implements `MessageFate`. The fate of
   a message depends on four sets only: what was sent, what is settled, what is
   open in some place, and what was ever parked. Every step changes them in one of
   four ways (`Forgets`, `SettlesAll`, `ParksAll`, `Accepts`), each of which is a step
   of `MessageFate` or none (`MovesRefine`); what is left is to tell, group by group
   of actions, which of the four it is. `SentOnly` is the invariant that goes with
   it: nothing is anywhere that was not sent.
4. `UnackedIsHeld`, with no `"reconnect"` among the faults (a reconnection leaves the
   old deliveries in the batches, which is the reason why `Valid` exists). While
   the process runs the batches hold current deliveries only, each in one place,
   and none is missing; a stopped one, whose deliveries may stay with an open
   connection, is not claimed anything of (`HandsInv`).
5. `RepliesWithinDeliveries`. Replies alone are not inductive. Each delivery pays for
   one of: a reply that was sent, an entry of the ZSet (`Paid`), a task that is
   still trying, an entry the poller has popped or is working on (`Left`); the sum
   never exceeds the deliveries, and no step makes two of one (`Covered`).

`AccountLink_proofs` proves `TypeOK`, `CodeUsedOnce`, `LinkedMeansBound`,
`TurnsFollow` and `NothingLeftBehind`, for any accounts, people, codes, commands, batches, failures and
crashes. A code that was used is gone, and nothing is issued under the name of a
code that is gone (`GoneWhenUsed`). The other two rest on `Places`: what a command
has read is bound to its person or the reason why not is known (`AllAimed`); of
two commands that share an account it is known who is excused (`AllApart`); what
the target has of a person that is being moved was saved meanwhile (`AllFresh`);
an account nobody was bound to has no memory (`NothingBefore`); a batch writes to an
account that is bound, or deleted (`BatchesBound`). Most steps are `Ordinary`: they
rebind accounts in one of five ways (`Rebound`) and let commands go on without a
look at them (`Quiet`), and keep all parts at once. The four that are not are
looked at singly: `ReadAccounts`, `Commit`, `RenameKeys`, `BatchSaves`.
`NothingLeftBehind` is inductive with the types: a row that goes is one that a merge
is about to rename or `delete_me` has made a stray, a rename leaves nothing, and who
writes to an account whose row has gone makes it a stray.

`Feeds_proofs` proves the four properties of `FeedSources` and its types, for
any URLs, links, callers and limits. `TypeOK` is not inductive: the job takes the
tail of its selection when a call returns, so a call of a job must imply a
selection that is not empty (`InPass`). `CapOvershoot` rests on `Counted`: a call
between its check and its commit holds a place, and the sources that are on and
the places together stay below the cap and the most places held at once; a commit
turns a place into a source. `AddedOnce` needs that no row is ever deleted
(`InsertedOnce`), `NeverRevived` that a pass calls `add_resolved` only with what it
selected, and selected nothing it had read in the list (`PassKnows`).

Of `FeedScan` it proves `AnnouncedPerClaim`, `NotificationsBounded`, `RelevantIsKept`
and the action property `TouchedWhenHandled`, for any sources, entries, budgets and
limits. What the entry in hand still stands for is counted with what was done: an
announcement that may follow against the claim that was taken for it, even if
that claim runs out meanwhile (`ClaimsCover`), a notification that may follow
against the quota (`QuotaCovers`), and without failures only the entry in hand can be
owed anything (`OwedInHand`). `PassedClaimed` says of the loop over a page that what
it has passed was claimed, now or before. `ScanTypeOK`, proved first, needs a lemma on
where the loop is: the least of the sources that are left is one of them
(`ForemostIsLeft`), from the well-foundedness of the numbers.

`Delivery_proofs` proves `NothingLost`, `CopiesExplained` and `GivenUpLate` for any
messages, prefetch limit, attempts and failures. All three need `OnePlace`: a
message that is not settled is once in the queue or in the hands of one callback,
never both, or a second delivery could undo what the first is about to settle.
When the process ends the broker puts the messages back in an order nobody
chooses; that such an order leaves none out is a lemma on injections
(`OrderHasAll`). `Explained` relates the history of a message to where it is going.

`TypingLoops_proofs` proves `TypingEnds`, `ShownWhileTyping` and `TypeOK` for any turns
and chats. A loop that runs belongs to a turn whose stop event was not handled
(`LoopsOfTurns`), and the stop event of a turn that is over was handled, given up,
or is still in the queue or in hand (`StopsUnderWay`). A chat that is quiet has no
such event, so no such loop.

`AdminPanel_proofs` proves the properties of the sink and of the panel, for any
records, groups, requests, queue and batch sizes and times. `Sink`: the records
that are held are split between the logging threads' calls, the queue and the
batch, each in one of them and once (`HeldInPlace`), none while the process is down
(`DownIsEmpty`), and the counter of a group is the number of its records that were
stored; a batch of held records is therefore counted once and completely
(`Aggregated`), which gives `CountsAreReal` and `NothingHeldWhenDown`. `Ages`: a result in
the cache, or in the hands of a request, was read from its source after the time
its age counts from (`Within`), a healthy one of a process that had not been silent
for longer than the heartbeat allows plus the age of the result (`Right`), and the
heartbeat key is not younger than the silence (`BeatFits`). `ShownIsRecent` and
`HealthyMeansAlive` are these facts at the moment a page is shown. `SingleFlight`, that no
two requests load one subject at once, is not inductive: the holder of each lock must
be the request that loads its subject, and nobody when none does (`LocksHeld`). The
types include the capacities: `_enqueue` puts nothing into a full queue, and what
the drainer collects stays within a batch (`Capacities`).

`MediaNotes_proofs` proves `FirstAnswerWins` of `FallbackChain`, and
`OnlyFramesFetched`, `ConcurrencyKept`, `NotesAreTrue` and `TypeOK` of `MediaNotes`, for any
chains, batches and limits.
What a call has tried is a sequence in which nobody but the last has answered
(`CallOK`); that an answer ends the call, and nothing else does so, is a lemma on
`After` (`AfterAnswers`). An attachment in work is within the limit and has no note
yet, what was requested for it is among its sources, and it has a call only while it
is being described (`Worked`). That a file among the sources is a still image
(`FilesOfStills`) is about the order in which the gateway looks at the fields of a
message, of which at most one is set but for an animation and its copy.

One of its results is about a recursion. The library's induction theorems take an
operator, which cannot be instantiated here, but its theorem on least elements takes
a set: from it follow induction over a set of numbers (`NatSetInduction`) and that
the recursion of `_chain` over the entries of a role has a solution (`RunsExist`,
`RunsAgree`). With that, `Candidates` yields the models of the entries that fit, of
each of them, and of nothing else (`CandidatesAreThoseThatFit`).

Proved are all safety properties the passing runs check, and every type invariant.
Only model-checked are:

- the liveness properties `NeverStuck`, `EventuallySettled`, `EventuallyConsolidated`,
  `EveryoneIsPolled`, `EveryMessageSettles`, `EveryStopHandled` and `AllDescribed`:
  fairness and ENABLED are out of the prover's reach;
- the violations of the section before: a counterexample is found, not proved.

## Plan

What is done is ticked.

- [x] `UserLock` with its proofs
- [x] `MessageFate`, `DialoguePipeline`, the proofs of `AccountedFor` and
  `WorkingHoldsLock`
- [x] `Consolidation`
- [x] `AccountLink`, `FeedSources`, `FeedScan`
- [x] `Delivery`, `TypingLoops`
- [x] `FallbackChain` with `MediaNotes`, `Lifecycle` with `AdminPanel`
- [x] proofs of the safety properties of `FeedSources`, `Delivery` and `TypingLoops`,
  and of the invariants of `Consolidation`
- [x] proofs: `RepliesWithinDeliveries`, `UnackedIsHeld` (no reconnect), the refinement
  `KeepsPromise`
- [x] proofs of the safety properties of `AccountLink`, `FeedScan`, `Lifecycle` and
  `AdminPanel`
- [x] proofs of `FirstAnswerWins` of `FallbackChain` and of the safety properties of
  `MediaNotes`
- [x] proofs of `CandidatesAreThoseThatFit`, `SingleFlight`, `SwapsWorthwhile` and
  `NothingLeftBehind`, and of the type invariants that were left
- [ ] `ConfidenceDecay`: upsert and decay of hard facts over days, the row locks of the
  daily scan and of a consolidation run against each other
- [ ] `LoginLimit`: the failed-login counter and the sessions of the admin panel

## Not modelled

The HTTP clients of language models, search engines and feeds, page parsing,
prompts, formatting, logging, metrics, migrations, the tunnel, `bootstrap.py` and
the admin panel's collectors of Docker, logs and other systems: I/O or wording
without state another component reads. Password hashes, token rotation, the
sessions of the admin panel and its login limit: single calls of one request each.
The arithmetic of confidence; from reading alone: the docstring of
`apply_confidence_decay` says that it does not bump `updated_at`, and the column's
`onupdate=func.now()` does, so a fact decays once in `after_days` and not on every
scan. `PROJECT.json` gives the reason for each. Within the
modelled parts: the text of messages and replies, which facts a model finds, the
message archive, how long a request to a model takes, a command of the pipeline
that is neither acknowledged nor answered, the reconnection of `TGSender`; the pipeline has one user per sender, which `AccountLink` takes apart.
