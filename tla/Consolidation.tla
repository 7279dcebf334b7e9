---------------------------- MODULE Consolidation ----------------------------
(***************************************************************************)
(* The sleep phase of one user's dialogue: the Worker that adds turns to   *)
(* the Redis history, and ConsolidationJob, which turns a long history     *)
(* into facts and a summary once the user has been silent.  The scheduled  *)
(* scan and a manual run (python -m app.brain.memory.consolidation) may    *)
(* look at the user at the same time; only the user lock keeps them, and   *)
(* the Worker, apart.                                                      *)
(*                                                                         *)
(* Time is counted in ticks.  A turn (the batch of a user and the reply)   *)
(* is one entry of the history, from which the model draws one fact; the   *)
(* facts of several turns may have the same category and key, and the      *)
(* model names the facts in any order.                                     *)
(***************************************************************************)
EXTENDS Integers, Sequences, FiniteSets, SequencesExt

CONSTANTS
  NTurns,      \* how many turns the dialogue has (bounds the model)
  MinEntries,  \* CONSOLIDATION_MIN_MESSAGES
  MaxLen,      \* _CONTEXT_MAX_LEN
  MaxFacts,    \* _MAX_FACTS_PER_RUN
  FactOf,      \* FactOf[t]: category and key of the fact that turn t tells
  IdleTicks,   \* CONSOLIDATION_IDLE_MINUTES
  StateTtl,    \* _THINKING_TTL_SECONDS
  FaultKinds,  \* the faults that may happen
  MaxFaults,   \* how many of them, each once (bounds the model)
  Nobody,      \* the lock key is absent
  Worker,      \* token of the Worker
  Scan,        \* token of the scheduled scan
  Cli,         \* token of a manual run
  Orphan       \* token whose holder is gone

Turn    == 1 .. NTurns
Sleeper == {Scan, Cli}
Holder  == Sleeper \union {Worker}

ASSUME SizeAssumption ==
  /\ NTurns \in Nat /\ MaxFaults \in Nat
  /\ MinEntries \in Nat /\ MinEntries > 1 /\ MaxLen \in Nat /\ MaxFacts \in Nat
  /\ MinEntries <= MaxLen
  /\ IdleTicks \in Nat \ {0} /\ StateTtl \in Nat \ {0}
Faults == {"crash", "failure", "redis", "embed", "expiry"}
ASSUME FaultAssumption == FaultKinds \subseteq Faults
ASSUME TokenAssumption ==
  /\ Scan # Cli
  /\ {Worker, Orphan, Nobody} \intersect Sleeper = {}
  /\ Worker # Orphan /\ Worker # Nobody /\ Orphan # Nobody

VARIABLES
  context,   \* the list nodya:context
  state,     \* the hash nodya:state, with the age of last_active_at
  lock,      \* whose token nodya:lock has
  worker,    \* where the Worker is in a turn
  sleeper,   \* sleeper[s]: where the run s is, the history it has read, and
             \* the facts it has written and is to vectorize
  turns,     \* turns saved so far
  quiet,     \* ticks since the Worker last took up a message
  hardFacts, \* the rows of hard_facts: the turns they were drawn from
  vectors,   \* the points in Qdrant: the turns they were drawn from
  surplus,   \* turns whose facts a run cut off at MaxFacts
  dropped,   \* turns that left the history by its cap or its ttl
  faults     \* the faults that have happened

memory == <<hardFacts, vectors, surplus, dropped>>
vars == <<context, state, lock, worker, sleeper, turns, quiet, memory, faults>>

-----------------------------------------------------------------------------
(* Data                                                                    *)

\* A ContextMessage of role user or assistant, or of role summary.
Entry == [role: {"turn", "summary"}, of: SUBSET Turn]
TurnEntry(n) == [role |-> "turn", of |-> {n}]
Summary(S)   == [role |-> "summary", of |-> S]

\* The turns the entries of h tell of, and those that h has verbatim.
Covered(h) == UNION {h[i].of : i \in DOMAIN h}
Raw(h)     == UNION {h[i].of : i \in {j \in DOMAIN h : h[j].role = "turn"}}

\* The key is absent ("none"), or has a status; ttl 0 means no expiry.
Statuses == {"none", "idle", "thinking", "sleeping"}
NoState  == [status |-> "none", age |-> 0, ttl |-> 0]

\* set_state: HSET keeps the expiry the key already has.
SetState(status, ttl) ==
  state' = [status |-> status, age |-> 0,
            ttl |-> IF ttl # 0 THEN ttl ELSE state.ttl]
\* Bug: thinking without a ttl.
SetThinkingForEver == SetState("thinking", 0)

SetThinking == SetState("thinking", StateTtl)
SetIdle     == SetState("idle", 0)
SetSleeping == SetState("sleeping", 0)

\* rest; locked: has the lock; thinking: state set, reply in the making;
\* saved: the turn is in the history; leaving: the lock is to be released.
WorkerPhases == {"rest", "locked", "thinking", "saved", "leaving"}

\* rest; eligible: get_state allowed it; long: so did context_length;
\* locked; read: has the history; asleep: state set, the model at work;
\* persisted: facts committed; embedded: vectors stored or given up;
\* waking: idle is to be set; leaving: the lock is to be released.
SleeperPhases ==
  {"rest", "eligible", "long", "locked", "read", "asleep", "persisted",
   "embedded", "waking", "leaving"}
RunAt(p, h) == [phase |-> p, seen |-> h, points |-> {}]
AtRest == RunAt("rest", <<>>)

TypeOK ==
  /\ context \in Seq(Entry) /\ Len(context) <= MaxLen
  /\ state \in [status: Statuses, age: 0 .. IdleTicks, ttl: 0 .. StateTtl]
  /\ lock \in Holder \union {Orphan, Nobody}
  /\ worker \in WorkerPhases
  /\ sleeper \in [Sleeper -> [phase: SleeperPhases, seen: Seq(Entry),
                              points: SUBSET Turn]]
  /\ turns \in 0 .. NTurns
  /\ quiet \in 0 .. IdleTicks
  /\ hardFacts \in SUBSET Turn /\ vectors \in SUBSET Turn
  /\ surplus \in SUBSET Turn /\ dropped \in SUBSET Turn
  /\ faults \in SUBSET Faults

Init ==
  /\ context = <<>>
  /\ state = NoState
  /\ lock = Nobody
  /\ worker = "rest"
  /\ sleeper = [s \in Sleeper |-> AtRest]
  /\ turns = 0
  /\ quiet = 0
  /\ hardFacts = {} /\ vectors = {} /\ surplus = {} /\ dropped = {}
  /\ faults = {}

Fault(kind) ==
  /\ kind \in FaultKinds \ faults
  /\ Cardinality(faults) < MaxFaults
  /\ faults' = faults \union {kind}

\* Bug: SET without NX.
TakeAnyway(h) == lock' = h

\* acquire_lock and release_lock by h.
Take(h) == lock = Nobody /\ lock' = h
GiveBack(h) == lock' = IF lock = h THEN Nobody ELSE lock

-----------------------------------------------------------------------------
(* A turn of the Worker                                                    *)

WorkerGoes(from, to) ==
  /\ worker = from
  /\ worker' = to

WorkerAcquires ==
  /\ turns < NTurns
  /\ WorkerGoes("rest", "locked")
  /\ Take(Worker)
  /\ UNCHANGED <<context, state, sleeper, turns, quiet, memory, faults>>

Think ==
  /\ WorkerGoes("locked", "thinking")
  /\ SetThinking
  /\ quiet' = 0
  /\ UNCHANGED <<context, lock, sleeper, turns, memory, faults>>

\* The last MaxLen entries of h: LTRIM.
Trimmed(h) == IF Len(h) <= MaxLen THEN h
              ELSE SubSeq(h, Len(h) - MaxLen + 1, Len(h))

\* _save_dialog_context: push_context_many is one transaction.
SaveTurn ==
  /\ WorkerGoes("thinking", "saved")
  /\ LET h == Append(context, TurnEntry(turns + 1))
     IN /\ context' = Trimmed(h)
        /\ dropped' = dropped \union (Covered(h) \ Covered(Trimmed(h)))
  /\ turns' = turns + 1
  /\ UNCHANGED <<state, lock, sleeper, quiet, hardFacts, vectors, surplus,
                 faults>>

\* push_context_many raised: logged, the turn is answered but not remembered.
SaveFails ==
  /\ Fault("redis")
  /\ WorkerGoes("thinking", "saved")
  /\ UNCHANGED <<context, state, lock, sleeper, turns, quiet, memory>>

BackToIdle ==
  /\ WorkerGoes("saved", "leaving")
  /\ SetIdle
  /\ UNCHANGED <<context, lock, sleeper, turns, quiet, memory, faults>>

\* An exception in _run_locked: the state stays as it is.
WorkerFails ==
  /\ Fault("failure")
  /\ \E p \in {"locked", "thinking", "saved"} : WorkerGoes(p, "leaving")
  /\ UNCHANGED <<context, state, lock, sleeper, turns, quiet, memory>>

WorkerReleases ==
  /\ WorkerGoes("leaving", "rest")
  /\ GiveBack(Worker)
  /\ UNCHANGED <<context, state, sleeper, turns, quiet, memory, faults>>

-----------------------------------------------------------------------------
(* The scan                                                                *)

SleeperGoes(s, from, to) ==
  /\ sleeper[s].phase = from
  /\ sleeper' = [sleeper EXCEPT ![s].phase = to]

\* run_for_all: get_state, without the lock.
Eligible ==
  /\ state.status \in {"none", "idle"}
  /\ state.status = "idle" => state.age >= IdleTicks

CheckState(s) ==
  /\ Eligible
  /\ SleeperGoes(s, "rest", "eligible")
  /\ UNCHANGED <<context, state, lock, worker, turns, quiet, memory, faults>>

CheckLength(s) ==
  /\ SleeperGoes(s, "eligible",
                 IF Len(context) < MinEntries THEN "rest" ELSE "long")
  /\ UNCHANGED <<context, state, lock, worker, turns, quiet, memory, faults>>

-----------------------------------------------------------------------------
(* run_user, with check_idle = False                                       *)

TryLock(s) ==
  /\ \/ Take(s) /\ SleeperGoes(s, "long", "locked")
     \/ lock # Nobody /\ UNCHANGED lock /\ SleeperGoes(s, "long", "rest")
  /\ UNCHANGED <<context, state, worker, turns, quiet, memory, faults>>

\* Bug: the length is not checked again under the lock.
NeverTooShort(h) == FALSE

\* get_context (its limit is the cap), then the length is checked again.
TooShort(h) == Len(h) < MinEntries

ReadHistory(s) ==
  /\ sleeper[s].phase = "locked"
  /\ sleeper' = [sleeper EXCEPT ![s] =
       IF TooShort(context) THEN RunAt("leaving", <<>>)
                            ELSE RunAt("read", context)]
  /\ UNCHANGED <<context, state, lock, worker, turns, quiet, memory, faults>>

FallAsleep(s) ==
  /\ SleeperGoes(s, "read", "asleep")
  /\ SetSleeping
  /\ UNCHANGED <<context, lock, worker, turns, quiet, memory, faults>>

\* An exception before set_state, or the user row is gone.
LeaveEarly(s) ==
  /\ Fault("redis")
  /\ SleeperGoes(s, "locked", "leaving") \/ SleeperGoes(s, "read", "leaving")
  /\ UNCHANGED <<context, state, lock, worker, turns, quiet, memory>>

\* Bug: no commit.
PersistNothing(s) ==
  /\ SleeperGoes(s, "asleep", "persisted")
  /\ UNCHANGED <<context, state, lock, worker, turns, quiet, memory, faults>>

\* facts[:_MAX_FACTS_PER_RUN] of an answer that has a fact of each turn in R.
Considered(R) ==
  IF Cardinality(R) <= MaxFacts THEN {R} ELSE kSubset(MaxFacts, R)

\* Of the facts considered with one category and key the first is written.
Firsts(P) ==
  {F \in SUBSET P :
     /\ \A t \in P : \E f \in F : FactOf[f] = FactOf[t]
     /\ \A f, g \in F : FactOf[f] = FactOf[g] => f = g}

\* ON CONFLICT (user_id, category, key) DO UPDATE; a point has its row's id.
Upserted(rows, F) ==
  F \union {t \in rows : \A f \in F : FactOf[f] # FactOf[t]}

\* _analyze, and _persist_facts with its commit.
PersistFacts(s) ==
  LET R == Raw(sleeper[s].seen)
  IN /\ sleeper[s].phase = "asleep"
     /\ \E P \in Considered(R) : \E F \in Firsts(P) :
          /\ hardFacts' = Upserted(hardFacts, F)
          /\ surplus' = surplus \union (R \ P)
          /\ sleeper' = [sleeper EXCEPT ![s].phase = "persisted",
                                        ![s].points = F]
     /\ UNCHANGED <<context, state, lock, worker, turns, quiet, vectors,
                    dropped, faults>>

\* _vectorize has returned: the points are not used again.
VectorizeEnds(s) ==
  /\ sleeper[s].phase = "persisted"
  /\ sleeper' = [sleeper EXCEPT ![s].phase = "embedded", ![s].points = {}]

\* The points of what this run has written, and no other.
Vectorize(s) ==
  /\ VectorizeEnds(s)
  /\ vectors' = Upserted(vectors, sleeper[s].points)
  /\ UNCHANGED <<context, state, lock, worker, turns, quiet, hardFacts,
                 surplus, dropped, faults>>

\* embed raised: logged, the run goes on.
EmbedFails(s) ==
  /\ Fault("embed")
  /\ sleeper[s].points # {}
  /\ VectorizeEnds(s)
  /\ UNCHANGED <<context, state, lock, worker, turns, quiet, memory>>

\* replace_context with the summary of what was read.
Swap(s) ==
  /\ SleeperGoes(s, "embedded", "waking")
  /\ context' = <<Summary(Covered(sleeper[s].seen))>>
  /\ UNCHANGED <<state, lock, worker, turns, quiet, memory, faults>>

\* Bug: the state is not set back to idle.
RunFailsAsleep(s) ==
  /\ Fault("failure")
  /\ \E p \in {"asleep", "persisted", "embedded"} :
       SleeperGoes(s, p, "leaving")
  /\ UNCHANGED <<context, state, lock, worker, turns, quiet, memory>>

\* _analyze, _persist_facts, upsert_points or replace_context raised.
RunFails(s) ==
  /\ Fault("failure")
  /\ \E p \in {"asleep", "persisted", "embedded"} :
       SleeperGoes(s, p, "waking")
  /\ UNCHANGED <<context, state, lock, worker, turns, quiet, memory>>

Wake(s) ==
  /\ SleeperGoes(s, "waking", "leaving")
  /\ SetIdle
  /\ UNCHANGED <<context, lock, worker, turns, quiet, memory, faults>>

\* set_state raised: the finally still releases the lock.
WakeFails(s) ==
  /\ Fault("redis")
  /\ SleeperGoes(s, "waking", "leaving")
  /\ UNCHANGED <<context, state, lock, worker, turns, quiet, memory>>

SleeperReleases(s) ==
  /\ sleeper[s].phase = "leaving"
  /\ sleeper' = [sleeper EXCEPT ![s] = AtRest]
  /\ GiveBack(s)
  /\ UNCHANGED <<context, state, worker, turns, quiet, memory, faults>>

-----------------------------------------------------------------------------
(* Time and crashes                                                        *)

Older(n) == IF n < IdleTicks THEN n + 1 ELSE n

\* The state key ages; with its ttl used up it is gone.
Aged ==
  CASE state.status = "none" -> NoState
    [] state.status # "none" /\ state.ttl = 1 -> NoState
    [] OTHER -> [state EXCEPT !.age = Older(@),
                              !.ttl = IF @ = 0 THEN 0 ELSE @ - 1]

Tick ==
  /\ state' = Aged
  /\ quiet' = Older(quiet)
  /\ UNCHANGED <<context, lock, worker, sleeper, turns, memory, faults>>

\* The ttl of the history, longer than any silence the scan waits for.
ContextExpires ==
  /\ quiet = IdleTicks
  /\ worker = "rest"
  /\ context # <<>>
  /\ context' = <<>>
  /\ dropped' = dropped \union Covered(context)
  /\ UNCHANGED <<state, lock, worker, sleeper, turns, quiet, hardFacts,
                 vectors, surplus, faults>>

OrphanExpires ==
  /\ lock = Orphan
  /\ lock' = Nobody
  /\ UNCHANGED <<context, state, worker, sleeper, turns, quiet, memory,
                 faults>>

\* The ttl of the lock runs out under a holder that is still at work, or an
\* account merge deletes the key (UserLock!MergeDropsKey).
HolderOutlivesLock ==
  /\ Fault("expiry")
  /\ lock \in Holder
  /\ lock' = Nobody
  /\ UNCHANGED <<context, state, worker, sleeper, turns, quiet, memory>>

\* The application (Worker and scan) or the manual run dies, or is cancelled:
\* a CancelledError passes the except Exception of run_user by.
Process == {{Worker, Scan}, {Cli}}

Crash(P) ==
  /\ Fault("crash")
  /\ worker' = IF Worker \in P THEN "rest" ELSE worker
  /\ sleeper' = [s \in Sleeper |-> IF s \in P THEN AtRest ELSE sleeper[s]]
  /\ lock' = IF lock \in P THEN Orphan ELSE lock
  /\ UNCHANGED <<context, state, turns, quiet, memory>>

-----------------------------------------------------------------------------
WorkerStep ==
  \/ Think \/ SaveTurn \/ SaveFails \/ BackToIdle
  \/ WorkerFails \/ WorkerReleases

RunStep(s) ==
  \/ CheckLength(s) \/ TryLock(s) \/ ReadHistory(s) \/ FallAsleep(s)
  \/ LeaveEarly(s) \/ PersistFacts(s) \/ Vectorize(s) \/ EmbedFails(s)
  \/ Swap(s) \/ RunFails(s) \/ Wake(s) \/ WakeFails(s) \/ SleeperReleases(s)

Next ==
  \/ WorkerAcquires
  \/ WorkerStep
  \/ \E s \in Sleeper : CheckState(s) \/ RunStep(s)
  \/ Tick
  \/ ContextExpires
  \/ OrphanExpires
  \/ HolderOutlivesLock
  \/ \E P \in Process : Crash(P)

Spec == Init /\ [][Next]_vars

\* The scheduler runs the scan again and again, a started run goes on, time
\* passes.  Nobody has to write, run the job by hand, or fail.
Fairness ==
  /\ WF_vars(WorkerStep)
  /\ \A s \in Sleeper : WF_vars(RunStep(s))
  /\ WF_vars(CheckState(Scan))
  /\ WF_vars(Tick)
  /\ WF_vars(OrphanExpires)

FairSpec == Spec /\ Fairness

-----------------------------------------------------------------------------
(* Properties                                                              *)

\* Every saved turn is in the history, verbatim or summarised, unless the cap
\* or the ttl of the history dropped it: no swap erases a turn that was saved
\* after the history was read, as long as no lock expires, or is deleted by a
\* merge, under its holder.
NoTurnForgotten ==
  "expiry" \notin faults => 1 .. turns \subseteq Covered(context) \union dropped

\* The turns whose fact was cut off, or has a row with its category and key.
Recorded ==
  {t \in Turn : t \in surplus \/ \E f \in hardFacts : FactOf[f] = FactOf[t]}

\* A turn disappears behind a summary only after its fact is committed: any
\* failure before the swap leaves the raw history for the next scan.  What is
\* left of a turn is its own fact or one of another turn with the same category
\* and key; only facts beyond the cap of a run that did commit are lost.
FactsBeforeSummary ==
  \A i \in DOMAIN context :
    context[i].role = "summary" => context[i].of \subseteq Recorded

\* "thinking" always has a ttl: a crashed worker releases it automatically.
ThinkingExpires == state.status = "thinking" => state.ttl # 0

\* Two runs that both found the user eligible do not summarise the summary:
\* a swap replaces at least MinEntries entries, or an expired history.
SwapsWorthwhile ==
  [][\A s \in Sleeper :
       Swap(s) => \/ Len(context) >= MinEntries \/ context = <<>>
                  \/ "expiry" \in faults]_vars

LongHistory == Len(context) >= MinEntries

\* A history long enough is summarised (or dropped) in the end, although the
\* model, the database, Qdrant or a lock fail, unless the process or the
\* connection to Redis does.
EventuallyConsolidated ==
  LongHistory ~> ~LongHistory \/ faults \intersect {"crash", "redis"} # {}

-----------------------------------------------------------------------------
(* What the documentation says of the sleep phase                          *)

\* run_for_all: only who is silent for CONSOLIDATION_IDLE_MINUTES is put to
\* sleep.
SleepsOnlyTheSilent ==
  [][\A s \in Sleeper : FallAsleep(s) => quiet >= IdleTicks]_vars

\* Any failure before the swap leaves the history for the next scan, which
\* retries safely.
NextScanRetries == LongHistory ~> ~LongHistory

\* _vectorize: a fact that was not vectorized will be on a later run, so the
\* turn it comes from is still there to be read.
UnvectorizedStaysReadable ==
  hardFacts \ vectors \subseteq Raw(context) \union dropped
=============================================================================
